---- MODULE Spec2Model ----
(***************************************************************************)
(* Pool accounting and reward-index engine of the pooling program          *)
(* (allwinprotocol): the fixed-point arithmetic, the Pool record and its   *)
(* operations, the Ticket and Mining positions, and the instruction        *)
(* handlers of processor.rs.                                               *)
(*                                                                         *)
(* Numbers.  The program computes with u64, a 128-bit Rate and a 192-bit   *)
(* Decimal, both scaled by WAD = 10^18.  TLC's integers are 32 bits wide,  *)
(* so the model keeps every width and the scale as a definition and scales *)
(* them down together: WAD = 10^2, u64::MAX = 1845 (u64::MAX / WAD is 18.4 *)
(* in the program and here), the Rate's maximum is (u64::MAX+1)^2 - 1 as   *)
(* in the program, and the Decimal's maximum is the largest integer TLC    *)
(* holds.  Every checked operation fails exactly when its mathematical     *)
(* result leaves the width of its type.                                    *)
(***************************************************************************)
EXTENDS Integers, Sequences, FiniteSets, TLC

\* ------------------------------------------------------------------------
\* Results: Ok(v) | Err(e), the program's Result<_, ProgramError>.
\* ------------------------------------------------------------------------
Ok(v) == [ok |-> TRUE, v |-> v, err |-> "none"]
Err(e) == [ok |-> FALSE, v |-> 0, err |-> e]
MathOverflow == Err("MathOverflow")

\* ------------------------------------------------------------------------
\* math: Decimal and Rate (crate::math, scaled integers).
\* ------------------------------------------------------------------------
WAD == 100
HALF_WAD == WAD \div 2
PERCENT_SCALER == WAD \div 100
U64_MAX == 1845
U128_MAX == (U64_MAX + 1) * (U64_MAX + 1) - 1
U192_MAX == 2147483647

\* a * b <= max, decided without forming a product that does not fit.
MulFits(a, b, max) == b = 0 \/ a <= max \div b

Decimal_zero == 0
Decimal_one == WAD
Decimal_from(n) == n * WAD
Rate_one == WAD
Rate_from_percent(p) == p * PERCENT_SCALER
Rate_from_scaled_val(v) == v

Decimal_try_add(a, b) == IF a > U192_MAX - b THEN MathOverflow ELSE Ok(a + b)
Decimal_try_sub(a, b) == IF b > a THEN MathOverflow ELSE Ok(a - b)
\* Decimal * u64
Decimal_try_mul_u64(a, n) == IF MulFits(a, n, U192_MAX) THEN Ok(a * n) ELSE MathOverflow
\* Decimal * Decimal and Decimal * Rate: the product of the scaled values over WAD
Decimal_try_mul(a, b) == IF MulFits(a, b, U192_MAX) THEN Ok((a * b) \div WAD) ELSE MathOverflow
\* Decimal / u64
Decimal_try_div_u64(a, n) == IF n = 0 THEN MathOverflow ELSE Ok(a \div n)
\* Decimal / Decimal and Decimal / Rate
Decimal_try_div(a, b) ==
    IF ~MulFits(a, WAD, U192_MAX) \/ b = 0 THEN MathOverflow ELSE Ok((a * WAD) \div b)
Decimal_try_floor_u64(a) == IF a \div WAD > U64_MAX THEN MathOverflow ELSE Ok(a \div WAD)
Decimal_try_ceil_u64(a) ==
    IF a > U192_MAX - (WAD - 1) \/ (a + WAD - 1) \div WAD > U64_MAX
    THEN MathOverflow ELSE Ok((a + WAD - 1) \div WAD)
Decimal_try_round_u64(a) ==
    IF a > U192_MAX - HALF_WAD \/ (a + HALF_WAD) \div WAD > U64_MAX
    THEN MathOverflow ELSE Ok((a + HALF_WAD) \div WAD)

Rate_try_from(d) == IF d > U128_MAX THEN MathOverflow ELSE Ok(d)
Rate_try_mul_u64(r, n) == IF MulFits(r, n, U128_MAX) THEN Ok(r * n) ELSE MathOverflow
Rate_try_div(r, s) ==
    IF ~MulFits(r, WAD, U128_MAX) \/ s = 0 THEN MathOverflow ELSE Ok((r * WAD) \div s)
Rate_try_round_u64(r) ==
    IF r > U128_MAX - HALF_WAD \/ (r + HALF_WAD) \div WAD > U64_MAX
    THEN MathOverflow ELSE Ok((r + HALF_WAD) \div WAD)

\* r? then f: the `?` operator
AndThen(r, F(_)) == IF r.ok THEN F(r.v) ELSE r

\* ------------------------------------------------------------------------
\* state: LastUpdate, constants of state/mod.rs
\* ------------------------------------------------------------------------
PROGRAM_VERSION == 1
UNINITIALIZED_VERSION == 0
INITIAL_COLLATERAL_RATIO == 1
INITIAL_COLLATERAL_RATE == INITIAL_COLLATERAL_RATIO * WAD
STALE_AFTER_SLOTS_ELAPSED == 1

LastUpdate_new(slot) == [slot |-> slot, stale |-> TRUE]
LastUpdate_slots_elapsed(self, slot) ==
    IF slot < self.slot THEN MathOverflow ELSE Ok(slot - self.slot)
LastUpdate_update_slot(self, slot) == [slot |-> slot, stale |-> FALSE]
LastUpdate_mark_stale(self) == [self EXCEPT !.stale = TRUE]
LastUpdate_is_stale(self, slot) ==
    LET e == LastUpdate_slots_elapsed(self, slot)
    IN IF ~e.ok THEN e ELSE Ok(self.stale \/ e.v >= STALE_AFTER_SLOTS_ELAPSED)

\* ------------------------------------------------------------------------
\* state/pool_manager.rs: PoolManager.  An identity (Pubkey) is a name;
\* Pubkey::default() is "-".
\* ------------------------------------------------------------------------
\* PoolManager::default()
PoolManager_default ==
    [version |-> UNINITIALIZED_VERSION,
     bump_seed |-> 0,
     pending_owner |-> "-",
     owner |-> "-",
     quote_currency |-> "-",
     token_program_id |-> "-",
     oracle_program_id |-> "-",
     mine_mint |-> "-",
     mine_supply_account |-> "-"]

\* PoolManager::init
PoolManager_init(self, params) ==
    [self EXCEPT !.version = PROGRAM_VERSION,
                 !.bump_seed = params.bump_seed,
                 !.pending_owner = "-",
                 !.owner = params.owner,
                 !.quote_currency = params.quote_currency,
                 !.token_program_id = params.token_program_id,
                 !.oracle_program_id = params.oracle_program_id,
                 !.mine_mint = params.mine_mint,
                 !.mine_supply_account = params.mine_supply_account]

\* ------------------------------------------------------------------------
\* state/pool.rs: Pool
\* ------------------------------------------------------------------------
\* Pool::default()
Pool_default ==
    [version |-> UNINITIALIZED_VERSION,
     last_update |-> [slot |-> 0, stale |-> FALSE],
     liquidity |-> [mint_decimals |-> 0,
                    available_amount |-> 0,
                    borrowed_amount_wads |-> 0,
                    cumulative_borrow_rate_wads |-> 0,
                    market_price |-> 0,
                    owner_unclaimed |-> 0],
     collateral |-> [mint_total_supply |-> 0],
     config |-> [deposit_paused |-> FALSE],
     lottery |-> [l_token_mining_index |-> 0,
                  borrow_mining_index |-> 0,
                  total_mining_speed |-> 0,
                  kink_util_rate |-> 0],
     reentry_lock |-> FALSE]

ReserveLiquidity_new(mint_decimals, market_price) ==
    [mint_decimals |-> mint_decimals,
     available_amount |-> 0,
     borrowed_amount_wads |-> Decimal_zero,
     cumulative_borrow_rate_wads |-> Decimal_one,
     market_price |-> market_price,
     owner_unclaimed |-> Decimal_zero]

ReserveCollateral_new == [mint_total_supply |-> 0]

Lottery_new(total_mining_speed, kink_util_rate) ==
    [l_token_mining_index |-> Decimal_zero,
     borrow_mining_index |-> Decimal_zero,
     total_mining_speed |-> total_mining_speed,
     kink_util_rate |-> kink_util_rate]

\* Pool::init
Pool_init(self, current_slot, liquidity, collateral, config, lottery) ==
    [self EXCEPT !.version = PROGRAM_VERSION,
                 !.last_update = LastUpdate_new(current_slot),
                 !.liquidity = liquidity,
                 !.collateral = collateral,
                 !.config = config,
                 !.lottery = lottery,
                 !.reentry_lock = FALSE]

Pool_is_initialized(self) == self.version # UNINITIALIZED_VERSION

\* An operation on &mut self: the result and the value self holds afterwards.
Out(res, self) == [res |-> res, self |-> self]

\* Pool::get_mine_ratio: (lend side, borrow side)
get_mine_ratio(self) ==
    LET lend == Rate_try_div(Rate_one, Rate_from_percent(50))
        borrow == Rate_try_div(Rate_one, Rate_from_percent(50))
    IN IF ~lend.ok THEN lend
       ELSE IF ~borrow.ok THEN borrow
       ELSE Ok(<<lend.v, borrow.v>>)

\* mining_amount taking the elapsed slots as 0 when the slot is before
\* last_update.slot
mining_amount_saturating(self, slot, ratio) ==
    LET elapsed == IF slot < self.last_update.slot
                   THEN Ok(0)
                   ELSE Ok(slot - self.last_update.slot)
    IN AndThen(elapsed, LAMBDA e:
         AndThen(Decimal_try_mul_u64(Decimal_from(self.lottery.total_mining_speed), e),
                 LAMBDA m: Decimal_try_mul(m, ratio)))

\* mining_amount counting the slot of last_update among the elapsed slots
mining_amount_inclusive(self, slot, ratio) ==
    LET elapsed == IF slot < self.last_update.slot
                   THEN MathOverflow
                   ELSE Ok(slot - self.last_update.slot + 1)
    IN AndThen(elapsed, LAMBDA e:
         AndThen(Decimal_try_mul_u64(Decimal_from(self.lottery.total_mining_speed), e),
                 LAMBDA m: Decimal_try_mul(m, ratio)))

\* total_mining_speed * (slot - last_update.slot) * ratio, the numerator of an
\* index increment
mining_amount(self, slot, ratio) ==
    LET elapsed == IF slot < self.last_update.slot
                   THEN MathOverflow
                   ELSE Ok(slot - self.last_update.slot)
    IN AndThen(elapsed, LAMBDA e:
         AndThen(Decimal_try_mul_u64(Decimal_from(self.lottery.total_mining_speed), e),
                 LAMBDA m: Decimal_try_mul(m, ratio)))

\* refresh_index storing the increment of this call in place of the accumulated
\* index
refresh_index_restarting(self, slot) ==
    IF self.collateral.mint_total_supply = 0 THEN Out(Ok(0), self)
    ELSE
    LET lendInc == AndThen(get_mine_ratio(self), LAMBDA ratio:
                     AndThen(mining_amount(self, slot, ratio[1]), LAMBDA m:
                       Decimal_try_div_u64(m, self.collateral.mint_total_supply)))
    IN IF ~lendInc.ok THEN Out(lendInc, self)
       ELSE Out(Ok(0), [self EXCEPT !.lottery.l_token_mining_index = lendInc.v])

\* refresh_index advancing the borrow side whatever the share is
refresh_index_any_share(self, slot) ==
    IF self.collateral.mint_total_supply = 0 THEN Out(Ok(0), self)
    ELSE
    LET ratio == get_mine_ratio(self) IN
    IF ~ratio.ok THEN Out(ratio, self)
    ELSE
    LET lendInc == AndThen(mining_amount(self, slot, ratio.v[1]),
                     LAMBDA m: Decimal_try_div_u64(m, self.collateral.mint_total_supply))
        lendIdx == AndThen(lendInc,
                     LAMBDA i: Decimal_try_add(self.lottery.l_token_mining_index, i))
    IN
    IF ~lendIdx.ok THEN Out(lendIdx, self)
    ELSE
    LET self1 == [self EXCEPT !.lottery.l_token_mining_index = lendIdx.v]
        original_share == Decimal_try_div(self1.liquidity.borrowed_amount_wads,
                                          self1.liquidity.cumulative_borrow_rate_wads)
    IN
    IF ~original_share.ok THEN Out(original_share, self1)
    ELSE
    LET borrowInc == AndThen(mining_amount(self1, slot, ratio.v[2]),
                       LAMBDA m: Decimal_try_div(m, original_share.v))
        borrowIdx == AndThen(borrowInc,
                       LAMBDA i: Decimal_try_add(self1.lottery.borrow_mining_index, i))
    IN
    IF ~borrowIdx.ok THEN Out(borrowIdx, self1)
    ELSE Out(Ok(0), [self1 EXCEPT !.lottery.borrow_mining_index = borrowIdx.v])

\* refresh_index moving last_update to the slot it was given
refresh_index_updating_slot(self, slot) ==
    IF self.collateral.mint_total_supply = 0 THEN Out(Ok(0), self)
    ELSE
    LET ratio == get_mine_ratio(self) IN
    IF ~ratio.ok THEN Out(ratio, self)
    ELSE
    LET lendInc == AndThen(mining_amount(self, slot, ratio.v[1]),
                     LAMBDA m: Decimal_try_div_u64(m, self.collateral.mint_total_supply))
        lendIdx == AndThen(lendInc,
                     LAMBDA i: Decimal_try_add(self.lottery.l_token_mining_index, i))
    IN
    IF ~lendIdx.ok THEN Out(lendIdx, self)
    ELSE
    LET self1 == [self EXCEPT !.lottery.l_token_mining_index = lendIdx.v,
                              !.last_update = LastUpdate_update_slot(@, slot)]
        original_share == Decimal_try_div(self1.liquidity.borrowed_amount_wads,
                                          self1.liquidity.cumulative_borrow_rate_wads)
    IN
    IF ~original_share.ok THEN Out(original_share, self1)
    ELSE IF original_share.v < Decimal_one THEN Out(Ok(0), self1)
    ELSE
    LET borrowInc == AndThen(mining_amount(self1, slot, ratio.v[2]),
                       LAMBDA m: Decimal_try_div(m, original_share.v))
        borrowIdx == AndThen(borrowInc,
                       LAMBDA i: Decimal_try_add(self1.lottery.borrow_mining_index, i))
    IN
    IF ~borrowIdx.ok THEN Out(borrowIdx, self1)
    ELSE Out(Ok(0), [self1 EXCEPT !.lottery.borrow_mining_index = borrowIdx.v])

\* refresh_index taking the elapsed slots before it looks at the supply
refresh_index_elapsed_first(self, slot) ==
    IF slot < self.last_update.slot THEN Out(MathOverflow, self)
    ELSE IF self.collateral.mint_total_supply = 0 THEN Out(Ok(0), self)
    ELSE
    LET ratio == get_mine_ratio(self) IN
    IF ~ratio.ok THEN Out(ratio, self)
    ELSE
    LET lendInc == AndThen(mining_amount(self, slot, ratio.v[1]),
                     LAMBDA m: Decimal_try_div_u64(m, self.collateral.mint_total_supply))
        lendIdx == AndThen(lendInc,
                     LAMBDA i: Decimal_try_add(self.lottery.l_token_mining_index, i))
    IN
    IF ~lendIdx.ok THEN Out(lendIdx, self)
    ELSE
    LET self1 == [self EXCEPT !.lottery.l_token_mining_index = lendIdx.v]
        original_share == Decimal_try_div(self1.liquidity.borrowed_amount_wads,
                                          self1.liquidity.cumulative_borrow_rate_wads)
    IN
    IF ~original_share.ok THEN Out(original_share, self1)
    ELSE IF original_share.v < Decimal_one THEN Out(Ok(0), self1)
    ELSE
    LET borrowInc == AndThen(mining_amount(self1, slot, ratio.v[2]),
                       LAMBDA m: Decimal_try_div(m, original_share.v))
        borrowIdx == AndThen(borrowInc,
                       LAMBDA i: Decimal_try_add(self1.lottery.borrow_mining_index, i))
    IN
    IF ~borrowIdx.ok THEN Out(borrowIdx, self1)
    ELSE Out(Ok(0), [self1 EXCEPT !.lottery.borrow_mining_index = borrowIdx.v])

\* Pool::refresh_index
refresh_index(self, slot) ==
    IF self.collateral.mint_total_supply = 0 THEN Out(Ok(0), self)
    ELSE
    LET ratio == get_mine_ratio(self) IN
    IF ~ratio.ok THEN Out(ratio, self)
    ELSE
    LET lendInc == AndThen(mining_amount(self, slot, ratio.v[1]),
                     LAMBDA m: Decimal_try_div_u64(m, self.collateral.mint_total_supply))
        lendIdx == AndThen(lendInc,
                     LAMBDA i: Decimal_try_add(self.lottery.l_token_mining_index, i))
    IN
    IF ~lendIdx.ok THEN Out(lendIdx, self)
    ELSE
    LET self1 == [self EXCEPT !.lottery.l_token_mining_index = lendIdx.v]
        original_share == Decimal_try_div(self1.liquidity.borrowed_amount_wads,
                                          self1.liquidity.cumulative_borrow_rate_wads)
    IN
    IF ~original_share.ok THEN Out(original_share, self1)
    ELSE IF original_share.v < Decimal_one THEN Out(Ok(0), self1)
    ELSE
    LET borrowInc == AndThen(mining_amount(self1, slot, ratio.v[2]),
                       LAMBDA m: Decimal_try_div(m, original_share.v))
        borrowIdx == AndThen(borrowInc,
                       LAMBDA i: Decimal_try_add(self1.lottery.borrow_mining_index, i))
    IN
    IF ~borrowIdx.ok THEN Out(borrowIdx, self1)
    ELSE Out(Ok(0), [self1 EXCEPT !.lottery.borrow_mining_index = borrowIdx.v])

\* ReserveLiquidity::total_supply
total_supply(liq) ==
    LET all_liquidity == Decimal_try_add(Decimal_from(liq.available_amount),
                                         liq.borrowed_amount_wads)
    IN AndThen(all_liquidity, LAMBDA a:
         IF a < liq.owner_unclaimed THEN Ok(Decimal_zero)
         ELSE Decimal_try_sub(a, liq.owner_unclaimed))

\* exchange_rate dividing the liquidity by the claim-token supply
exchange_rate_inverted(coll, total_liquidity) ==
    IF coll.mint_total_supply = 0 \/ total_liquidity = Decimal_zero
    THEN Ok(Rate_from_scaled_val(INITIAL_COLLATERAL_RATE))
    ELSE AndThen(Decimal_try_div(total_liquidity, Decimal_from(coll.mint_total_supply)),
                 LAMBDA d: Rate_try_from(d))

\* ReserveCollateral::exchange_rate: the CollateralExchangeRate (a Rate)
exchange_rate(coll, total_liquidity) ==
    IF coll.mint_total_supply = 0 \/ total_liquidity = Decimal_zero
    THEN Ok(Rate_from_scaled_val(INITIAL_COLLATERAL_RATE))
    ELSE AndThen(Decimal_try_div(Decimal_from(coll.mint_total_supply), total_liquidity),
                 LAMBDA d: Rate_try_from(d))

\* Pool::collateral_exchange_rate
collateral_exchange_rate(self) ==
    AndThen(total_supply(self.liquidity),
            LAMBDA t: exchange_rate(self.collateral, t))

\* CollateralExchangeRate::collateral_to_liquidity
collateral_to_liquidity(rate, collateral_amount) ==
    AndThen(Decimal_try_div(Decimal_from(collateral_amount), rate),
            LAMBDA d: Decimal_try_floor_u64(d))

\* CollateralExchangeRate::decimal_collateral_to_liquidity
decimal_collateral_to_liquidity(rate, collateral_amount) ==
    Decimal_try_div(collateral_amount, rate)

\* liquidity_to_collateral rounding down
liquidity_to_collateral_floor(rate, liquidity_amount) ==
    AndThen(Rate_try_mul_u64(rate, liquidity_amount),
            LAMBDA r: Decimal_try_floor_u64(r))

\* CollateralExchangeRate::liquidity_to_collateral
liquidity_to_collateral(rate, liquidity_amount) ==
    AndThen(Rate_try_mul_u64(rate, liquidity_amount),
            LAMBDA r: Rate_try_round_u64(r))

\* ReserveLiquidity::liquidity_amount
liquidity_amount(liq) ==
    IF Decimal_from(liq.available_amount) < liq.owner_unclaimed THEN Ok(0)
    ELSE AndThen(Decimal_try_ceil_u64(liq.owner_unclaimed), LAMBDA c:
           IF c > liq.available_amount THEN MathOverflow
           ELSE Ok(liq.available_amount - c))

\* deposit adding with wrapping_add
ReserveLiquidity_deposit_wrapping(liq, amount) ==
    Out(Ok(0), [liq EXCEPT !.available_amount = (@ + amount) % (U64_MAX + 1)])

\* ReserveLiquidity::deposit
ReserveLiquidity_deposit(liq, amount) ==
    IF liq.available_amount + amount > U64_MAX THEN Out(MathOverflow, liq)
    ELSE Out(Ok(0), [liq EXCEPT !.available_amount = @ + amount])

\* withdraw checking only that available_amount does not underflow
ReserveLiquidity_withdraw_unguarded(liq, amount) ==
    IF amount > liq.available_amount THEN Out(MathOverflow, liq)
    ELSE Out(Ok(0), [liq EXCEPT !.available_amount = @ - amount])

\* ReserveLiquidity::withdraw
ReserveLiquidity_withdraw(liq, amount) ==
    LET la == liquidity_amount(liq) IN
    IF ~la.ok THEN Out(la, liq)
    ELSE IF amount > la.v THEN Out(Err("InsufficientLiquidity"), liq)
    ELSE IF amount > liq.available_amount THEN Out(MathOverflow, liq)
    ELSE Out(Ok(0), [liq EXCEPT !.available_amount = @ - amount])

\* ReserveLiquidity::borrow
ReserveLiquidity_borrow(liq, borrow_decimal) ==
    LET c == Decimal_try_ceil_u64(borrow_decimal)
        la == liquidity_amount(liq)
        r == Decimal_try_round_u64(borrow_decimal)
    IN
    IF ~c.ok THEN Out(c, liq)
    ELSE IF ~la.ok THEN Out(la, liq)
    ELSE IF c.v > la.v THEN Out(Err("InsufficientLiquidity"), liq)
    ELSE IF ~r.ok THEN Out(r, liq)
    ELSE IF r.v > liq.available_amount THEN Out(MathOverflow, liq)
    ELSE
    LET liq1 == [liq EXCEPT !.available_amount = @ - r.v]
        b == Decimal_try_add(liq1.borrowed_amount_wads, borrow_decimal)
    IN IF ~b.ok THEN Out(b, liq1)
       ELSE Out(Ok(0), [liq1 EXCEPT !.borrowed_amount_wads = b.v])

\* ReserveLiquidity::repay
ReserveLiquidity_repay(liq, repay_amount, settle_amount) ==
    IF liq.available_amount + repay_amount > U64_MAX THEN Out(MathOverflow, liq)
    ELSE
    LET liq1 == [liq EXCEPT !.available_amount = @ + repay_amount]
        b == Decimal_try_sub(liq1.borrowed_amount_wads, settle_amount)
    IN IF ~b.ok THEN Out(b, liq1)
       ELSE Out(Ok(0), [liq1 EXCEPT !.borrowed_amount_wads = b.v])

\* ReserveCollateral::mint
ReserveCollateral_mint(coll, amount) ==
    IF coll.mint_total_supply + amount > U64_MAX THEN Out(MathOverflow, coll)
    ELSE Out(Ok(0), [coll EXCEPT !.mint_total_supply = @ + amount])

\* burn taking what there is when amount exceeds the supply
ReserveCollateral_burn_saturating(coll, amount) ==
    IF amount > coll.mint_total_supply
    THEN Out(Ok(0), [coll EXCEPT !.mint_total_supply = 0])
    ELSE Out(Ok(0), [coll EXCEPT !.mint_total_supply = @ - amount])

\* ReserveCollateral::burn
ReserveCollateral_burn(coll, amount) ==
    IF amount > coll.mint_total_supply THEN Out(MathOverflow, coll)
    ELSE Out(Ok(0), [coll EXCEPT !.mint_total_supply = @ - amount])

\* deposit_liquidity minting the claim tokens without recording the liquidity
deposit_liquidity_unrecorded(self, amount) ==
    LET collateral_amount ==
            AndThen(collateral_exchange_rate(self),
                    LAMBDA rate: liquidity_to_collateral(rate, amount))
    IN
    IF ~collateral_amount.ok THEN Out(collateral_amount, self)
    ELSE
    LET m == ReserveCollateral_mint(self.collateral, collateral_amount.v)
        self2 == [self EXCEPT !.collateral = m.self]
    IN
    IF ~m.res.ok THEN Out(m.res, self2)
    ELSE Out(Ok(collateral_amount.v), self2)

\* Pool::deposit_liquidity
deposit_liquidity(self, amount) ==
    LET collateral_amount ==
            AndThen(collateral_exchange_rate(self),
                    LAMBDA rate: liquidity_to_collateral(rate, amount))
    IN
    IF ~collateral_amount.ok THEN Out(collateral_amount, self)
    ELSE
    LET d == ReserveLiquidity_deposit(self.liquidity, amount)
        self1 == [self EXCEPT !.liquidity = d.self]
    IN
    IF ~d.res.ok THEN Out(d.res, self1)
    ELSE
    LET m == ReserveCollateral_mint(self1.collateral, collateral_amount.v)
        self2 == [self1 EXCEPT !.collateral = m.self]
    IN
    IF ~m.res.ok THEN Out(m.res, self2)
    ELSE Out(Ok(collateral_amount.v), self2)

\* redeem_collateral burning the claim tokens before it reads the exchange rate
redeem_collateral_rate_after_burn(self, collateral_amount) ==
    LET b == ReserveCollateral_burn(self.collateral, collateral_amount)
        self1 == [self EXCEPT !.collateral = b.self]
    IN
    IF ~b.res.ok THEN Out(b.res, self)
    ELSE
    LET liquidity ==
            AndThen(collateral_exchange_rate(self1),
                    LAMBDA rate: collateral_to_liquidity(rate, collateral_amount))
    IN
    IF ~liquidity.ok THEN Out(liquidity, self1)
    ELSE
    LET w == ReserveLiquidity_withdraw(self1.liquidity, liquidity.v)
        self2 == [self1 EXCEPT !.liquidity = w.self]
    IN
    IF ~w.res.ok THEN Out(w.res, self2)
    ELSE Out(Ok(liquidity.v), self2)

\* Pool::redeem_collateral
redeem_collateral(self, collateral_amount) ==
    LET liquidity ==
            AndThen(collateral_exchange_rate(self),
                    LAMBDA rate: collateral_to_liquidity(rate, collateral_amount))
    IN
    IF ~liquidity.ok THEN Out(liquidity, self)
    ELSE
    LET b == ReserveCollateral_burn(self.collateral, collateral_amount)
        self1 == [self EXCEPT !.collateral = b.self]
    IN
    IF ~b.res.ok THEN Out(b.res, self1)
    ELSE
    LET w == ReserveLiquidity_withdraw(self1.liquidity, liquidity.v)
        self2 == [self1 EXCEPT !.liquidity = w.self]
    IN
    IF ~w.res.ok THEN Out(w.res, self2)
    ELSE Out(Ok(liquidity.v), self2)

\* ------------------------------------------------------------------------
\* state/ticket.rs: Ticket.  Positions in a list are 1-based here (the
\* program's index i is position i + 1).
\* ------------------------------------------------------------------------
MAX_OBLIGATION_RESERVES == 10

Ticket_default ==
    [version |-> UNINITIALIZED_VERSION,
     last_update |-> [slot |-> 0, stale |-> FALSE],
     deposits |-> <<>>,
     deposited_value |-> 0,
     unclaimed_mine |-> 0]

\* Ticket::init
Ticket_init(self, current_slot, deposits) ==
    [self EXCEPT !.version = PROGRAM_VERSION,
                 !.last_update = LastUpdate_new(current_slot),
                 !.deposits = deposits]

\* TicketCollateral::new leaving the entry's index at zero
TicketCollateral_new_unseeded(deposit_reserve, l_token_mining_index) ==
    [index |-> Decimal_zero,
     deposit_reserve |-> deposit_reserve,
     deposited_amount |-> 0,
     market_value |-> Decimal_zero]

\* TicketCollateral::new
TicketCollateral_new(deposit_reserve, l_token_mining_index) ==
    [index |-> l_token_mining_index,
     deposit_reserve |-> deposit_reserve,
     deposited_amount |-> 0,
     market_value |-> Decimal_zero]

\* Vec::remove
Remove(seq, i) == [k \in 1..(Len(seq) - 1) |-> IF k < i THEN seq[k] ELSE seq[k + 1]]

\* Iterator::position: the first position holding `key`, 0 when there is none
Position(keys, key) ==
    IF \E k \in 1..Len(keys) : keys[k] = key
    THEN CHOOSE k \in 1..Len(keys) :
           /\ keys[k] = key
           /\ \A j \in 1..(k - 1) : keys[j] # key
    ELSE 0

\* refresh_deposit_unclaimed leaving the entry's index where it was
refresh_deposit_unclaimed_keeping_index(self, i, reserve) ==
    LET liquidity == self.deposits[i]
        accrued == AndThen(Decimal_try_sub(reserve.lottery.l_token_mining_index,
                                           liquidity.index),
                           LAMBDA d: Decimal_try_mul_u64(d, liquidity.deposited_amount))
        total == AndThen(accrued, LAMBDA a: Decimal_try_add(self.unclaimed_mine, a))
    IN IF ~total.ok THEN Out(total, self)
       ELSE Out(Ok(0), [self EXCEPT !.unclaimed_mine = total.v])

\* Ticket::refresh_deposit_unclaimed
refresh_deposit_unclaimed(self, i, reserve) ==
    LET liquidity == self.deposits[i]
        accrued == AndThen(Decimal_try_sub(reserve.lottery.l_token_mining_index,
                                           liquidity.index),
                           LAMBDA d: Decimal_try_mul_u64(d, liquidity.deposited_amount))
        total == AndThen(accrued, LAMBDA a: Decimal_try_add(self.unclaimed_mine, a))
    IN IF ~total.ok THEN Out(total, self)
       ELSE Out(Ok(0),
                [self EXCEPT !.unclaimed_mine = total.v,
                             !.deposits[i].index = reserve.lottery.l_token_mining_index])

\* TicketCollateral::deposit via Ticket::deposit
Ticket_deposit(self, i, collateral_amount) ==
    IF self.deposits[i].deposited_amount + collateral_amount > U64_MAX
    THEN Out(MathOverflow, self)
    ELSE Out(Ok(0), [self EXCEPT !.deposits[i].deposited_amount = @ + collateral_amount])

\* Ticket::withdraw (and TicketCollateral::withdraw)
Ticket_withdraw(self, withdraw_amount, i) ==
    IF withdraw_amount = self.deposits[i].deposited_amount
    THEN Out(Ok(0), [self EXCEPT !.deposits = Remove(@, i)])
    ELSE IF withdraw_amount > self.deposits[i].deposited_amount
    THEN Out(MathOverflow, self)
    ELSE Out(Ok(0), [self EXCEPT !.deposits[i].deposited_amount = @ - withdraw_amount])

\* Ticket::_find_collateral_index_in_deposits
find_collateral_index_in_deposits(self, deposit_reserve) ==
    Position([k \in 1..Len(self.deposits) |-> self.deposits[k].deposit_reserve], deposit_reserve)

\* find_or_add_collateral_to_deposits without the lookup of the pool
find_or_add_collateral_to_deposits_appending(self, deposit_reserve, l_token_mining_index) ==
    IF Len(self.deposits) >= MAX_OBLIGATION_RESERVES
    THEN Out(Err("ObligationReserveLimit"), self)
    ELSE Out(Ok(Len(self.deposits) + 1),
             [self EXCEPT !.deposits =
                 Append(@, TicketCollateral_new(deposit_reserve, l_token_mining_index))])

\* Ticket::find_or_add_collateral_to_deposits: Ok(position)
find_or_add_collateral_to_deposits(self, deposit_reserve, l_token_mining_index) ==
    LET found == find_collateral_index_in_deposits(self, deposit_reserve) IN
    IF found # 0 THEN Out(Ok(found), self)
    ELSE IF Len(self.deposits) >= MAX_OBLIGATION_RESERVES
    THEN Out(Err("ObligationReserveLimit"), self)
    ELSE Out(Ok(Len(self.deposits) + 1),
             [self EXCEPT !.deposits =
                 Append(@, TicketCollateral_new(deposit_reserve, l_token_mining_index))])

\* ------------------------------------------------------------------------
\* state/mining.rs: Mining
\* ------------------------------------------------------------------------
MAX_MINING_VOLUME == 10

Mining_default ==
    [version |-> UNINITIALIZED_VERSION,
     mining_indices |-> <<>>,
     unclaimed_mine |-> 0]

\* Mining::init
Mining_init(self, mining_indices) ==
    [self EXCEPT !.version = PROGRAM_VERSION,
                 !.unclaimed_mine = Decimal_zero,
                 !.mining_indices = mining_indices]

\* MiningIndex::new
MiningIndex_new(reserve, l_token_mining_index) ==
    [reserve |-> reserve,
     index |-> l_token_mining_index,
     un_coll_l_token_amount |-> 0]

\* Mining::refresh_unclaimed
refresh_unclaimed(self, i, reserve) ==
    LET mining_index == self.mining_indices[i]
        accrued == AndThen(Decimal_try_sub(reserve.lottery.l_token_mining_index,
                                           mining_index.index),
                           LAMBDA d: Decimal_try_mul_u64(d, mining_index.un_coll_l_token_amount))
        total == AndThen(accrued, LAMBDA a: Decimal_try_add(self.unclaimed_mine, a))
    IN IF ~total.ok THEN Out(total, self)
       ELSE Out(Ok(0),
                [self EXCEPT !.unclaimed_mine = total.v,
                             !.mining_indices[i].index = reserve.lottery.l_token_mining_index])

\* Mining::_find_index_in_mining_indices
find_index_in_mining_indices(self, reserve) ==
    Position([k \in 1..Len(self.mining_indices) |-> self.mining_indices[k].reserve], reserve)

\* find_or_add_reserve_in_vec without the capacity test
find_or_add_reserve_in_vec_uncapped(self, reserve, l_token_mining_index) ==
    LET found == find_index_in_mining_indices(self, reserve) IN
    IF found # 0 THEN Out(Ok(found), self)
    ELSE Out(Ok(Len(self.mining_indices) + 1),
             [self EXCEPT !.mining_indices =
                 Append(@, MiningIndex_new(reserve, l_token_mining_index))])

\* Mining::find_or_add_reserve_in_vec: Ok(position)
find_or_add_reserve_in_vec(self, reserve, l_token_mining_index) ==
    LET found == find_index_in_mining_indices(self, reserve) IN
    IF found # 0 THEN Out(Ok(found), self)
    ELSE IF Len(self.mining_indices) >= MAX_MINING_VOLUME
    THEN Out(Err("MiningVolumeLimit"), self)
    ELSE Out(Ok(Len(self.mining_indices) + 1),
             [self EXCEPT !.mining_indices =
                 Append(@, MiningIndex_new(reserve, l_token_mining_index))])

\* Mining::deposit
Mining_deposit(self, i, amount) ==
    IF self.mining_indices[i].un_coll_l_token_amount + amount > U64_MAX
    THEN Out(MathOverflow, self)
    ELSE Out(Ok(0), [self EXCEPT !.mining_indices[i].un_coll_l_token_amount = @ + amount])

\* Mining::withdraw keeping an entry whose balance reaches zero
Mining_withdraw_keeping_entry(self, i, amount) ==
    IF amount > self.mining_indices[i].un_coll_l_token_amount
    THEN Out(MathOverflow, self)
    ELSE Out(Ok(0), [self EXCEPT !.mining_indices[i].un_coll_l_token_amount = @ - amount])

\* Mining::withdraw
Mining_withdraw(self, i, amount) ==
    IF amount = self.mining_indices[i].un_coll_l_token_amount
    THEN Out(Ok(0), [self EXCEPT !.mining_indices = Remove(@, i)])
    ELSE IF amount > self.mining_indices[i].un_coll_l_token_amount
    THEN Out(MathOverflow, self)
    ELSE Out(Ok(0), [self EXCEPT !.mining_indices[i].un_coll_l_token_amount = @ - amount])

\* ------------------------------------------------------------------------
\* processor.rs: the instruction handlers.  A handler reads the record an
\* account holds, works on its own copy and writes the account with
\* Pack::pack; an operator below gives the handler's result and what the
\* account holds when the handler returns.  The checks of account owners,
\* keys, signers and rent are the dispatch layer's and are left out.
\* ------------------------------------------------------------------------
\* 10u64.checked_pow(e)
checked_pow10(e) == IF 10^e > U64_MAX THEN MathOverflow ELSE Ok(10^e)

\* get_pyth_price: the aggregate price (an i64) and its exponent
get_pyth_price(price, expo) ==
    IF price < 0 THEN Err("InvalidOracleConfig")
    ELSE IF expo >= 0
    THEN AndThen(checked_pow10(expo),
                 LAMBDA zeros: Decimal_try_mul_u64(Decimal_from(price), zeros))
    ELSE AndThen(checked_pow10(0 - expo),
                 LAMBDA decimals: Decimal_try_div_u64(Decimal_from(price), decimals))

\* Pack::unpack of a Pool, Ticket or Mining account: the record, when initialized
unpack(account) ==
    IF account.version = UNINITIALIZED_VERSION THEN Err("UninitializedAccount")
    ELSE Ok(account)

\* assert_uninitialized accepting an initialized account
assert_uninitialized_always(account) == Ok(account)

\* assert_uninitialized
assert_uninitialized(account) ==
    IF account.version # UNINITIALIZED_VERSION THEN Err("AlreadyInitialized")
    ELSE Ok(account)

\* The key process_init_pool_manager requires of its authority account
InitPoolManagerAuthority == "7NzERexiPdyiNp5whD74AwTDpALp5VgPta6hmdcGuNm9"

\* process_init_pool_manager, with its checks of the authority's key and
\* signature, which come before assert_uninitialized
process_init_pool_manager(account, authority, is_signer, owner) ==
    IF authority # InitPoolManagerAuthority THEN Out(Err("InvalidAccountInput"), account)
    ELSE IF ~is_signer THEN Out(Err("InvalidSigner"), account)
    ELSE
    LET pool_manager == assert_uninitialized(account) IN
    IF ~pool_manager.ok THEN Out(pool_manager, account)
    ELSE Out(Ok(0),
             PoolManager_init(pool_manager.v,
                              [bump_seed |-> 255,
                               owner |-> owner,
                               quote_currency |-> "USD",
                               token_program_id |-> "token_program",
                               oracle_program_id |-> "pyth",
                               mine_mint |-> "mine_mint",
                               mine_supply_account |-> "mine_supply"]))

\* process_set_pool_manager_owner giving the record the new owner
process_set_pool_manager_owner_enabled(account, new_owner) ==
    Out(Ok(0), [account EXCEPT !.owner = new_owner])

\* process_set_pool_manager_owner ("Abandoned method")
process_set_pool_manager_owner(account, new_owner) == Out(Ok(0), account)

\* process_lottery_draw: returns Ok and touches no account
process_lottery_draw(account) == Out(Ok(0), account)

\* process_init_pool
process_init_pool(account, slot, config, total_mining_speed, kink_util_rate, mint_decimals, price, expo) ==
    LET market_price == get_pyth_price(price, expo)
        reserve == assert_uninitialized(account)
    IN IF ~market_price.ok THEN Out(market_price, account)
       ELSE IF ~reserve.ok THEN Out(reserve, account)
       ELSE Out(Ok(0),
                Pool_init(reserve.v, slot,
                          ReserveLiquidity_new(mint_decimals, market_price.v),
                          ReserveCollateral_new, config,
                          Lottery_new(total_mining_speed, kink_util_rate)))

\* process_init_ticket
process_init_ticket(account, slot) ==
    LET ticket == assert_uninitialized(account)
    IN IF ~ticket.ok THEN Out(ticket, account)
       ELSE Out(Ok(0), Ticket_init(ticket.v, slot, <<>>))

\* process_refresh_reserve marking the pool refreshed before refresh_index has
\* succeeded
process_refresh_reserve_marking_early(account, slot, price, expo) ==
    LET reserve == unpack(account) IN
    IF ~reserve.ok THEN Out(reserve, account)
    ELSE
    LET market_price == get_pyth_price(price, expo) IN
    IF ~market_price.ok
    THEN Out(market_price, [account EXCEPT !.last_update = LastUpdate_update_slot(@, slot)])
    ELSE
    LET reserve1 == [reserve.v EXCEPT !.liquidity.market_price = market_price.v]
        r == refresh_index(reserve1, slot)
    IN
    IF ~r.res.ok THEN Out(r.res, account)
    ELSE Out(Ok(0),
             [r.self EXCEPT !.last_update = LastUpdate_update_slot(@, slot)])

\* process_refresh_reserve
process_refresh_reserve(account, slot, price, expo) ==
    LET reserve == unpack(account) IN
    IF ~reserve.ok THEN Out(reserve, account)
    ELSE
    LET market_price == get_pyth_price(price, expo) IN
    IF ~market_price.ok THEN Out(market_price, account)
    ELSE
    LET reserve1 == [reserve.v EXCEPT !.liquidity.market_price = market_price.v]
        r == refresh_index(reserve1, slot)
    IN
    IF ~r.res.ok THEN Out(r.res, account)
    ELSE Out(Ok(0),
             [r.self EXCEPT !.last_update = LastUpdate_update_slot(@, slot)])

\* deposit_market_value pricing the claim tokens as if each were one unit of
\* liquidity
deposit_market_value_at_par(deposit_reserve, deposited_amount) ==
    AndThen(checked_pow10(deposit_reserve.liquidity.mint_decimals), LAMBDA decimals:
      AndThen(Decimal_try_mul(Decimal_from(deposited_amount),
                              deposit_reserve.liquidity.market_price),
        LAMBDA v: Decimal_try_div_u64(v, decimals)))

\* The market value of one deposit entry (process_refresh_ticket, the loop body)
deposit_market_value(deposit_reserve, deposited_amount) ==
    AndThen(checked_pow10(deposit_reserve.liquidity.mint_decimals), LAMBDA decimals:
      AndThen(collateral_exchange_rate(deposit_reserve), LAMBDA rate:
        AndThen(decimal_collateral_to_liquidity(rate, Decimal_from(deposited_amount)),
          LAMBDA l:
            AndThen(Decimal_try_mul(l, deposit_reserve.liquidity.market_price),
              LAMBDA v: Decimal_try_div_u64(v, decimals)))))

\* process_refresh_ticket, the loop over the deposits from position pos on:
\* accounts are the pool accounts the caller supplied after the ticket and the clock
RECURSIVE refresh_ticket_from(_, _, _, _, _, _)
refresh_ticket_from(ticket, deposited_value, pos, accounts, reserves, slot) ==
    IF pos > Len(ticket.deposits)
    THEN IF Len(accounts) > Len(ticket.deposits)
         THEN Out(Err("InvalidAccountInput"), ticket)
         ELSE Out(Ok(0),
                  [ticket EXCEPT !.deposited_value = deposited_value,
                                 !.last_update = LastUpdate_update_slot(@, slot)])
    ELSE IF pos > Len(accounts) THEN Out(Err("NotEnoughAccountKeys"), ticket)
    ELSE IF ticket.deposits[pos].deposit_reserve # accounts[pos]
    THEN Out(Err("InvalidAccountInput"), ticket)
    ELSE
    LET deposit_reserve == unpack(reserves[accounts[pos]]) IN
    IF ~deposit_reserve.ok THEN Out(deposit_reserve, ticket)
    ELSE
    LET stale == LastUpdate_is_stale(deposit_reserve.v.last_update, slot) IN
    IF ~stale.ok THEN Out(stale, ticket)
    ELSE IF stale.v THEN Out(Err("ReserveStale"), ticket)
    ELSE
    LET market_value == deposit_market_value(deposit_reserve.v,
                                             ticket.deposits[pos].deposited_amount)
    IN
    IF ~market_value.ok THEN Out(market_value, ticket)
    ELSE
    LET ticket1 == [ticket EXCEPT !.deposits[pos].market_value = market_value.v]
        total == Decimal_try_add(deposited_value, market_value.v)
    IN
    IF ~total.ok THEN Out(total, ticket1)
    ELSE
    LET u == refresh_deposit_unclaimed(ticket1, pos, deposit_reserve.v) IN
    IF ~u.res.ok THEN u
    ELSE refresh_ticket_from(u.self, total.v, pos + 1, accounts, reserves, slot)

\* process_refresh_ticket packing the ticket inside the loop, so that a failure
\* leaves what the loop had written
process_refresh_ticket_packing_early(account, slot, accounts, reserves) ==
    LET ticket == unpack(account) IN
    IF ~ticket.ok THEN Out(ticket, account)
    ELSE refresh_ticket_from(ticket.v, Decimal_zero, 1, accounts, reserves, slot)

\* process_refresh_ticket reading no account past the last deposit's
process_refresh_ticket_ignoring_extra(account, slot, accounts, reserves) ==
    LET ticket == unpack(account) IN
    IF ~ticket.ok THEN Out(ticket, account)
    ELSE
    LET n == IF Len(accounts) > Len(ticket.v.deposits)
             THEN Len(ticket.v.deposits) ELSE Len(accounts)
        r == refresh_ticket_from(ticket.v, Decimal_zero, 1, SubSeq(accounts, 1, n),
                                 reserves, slot) IN
    IF ~r.res.ok THEN Out(r.res, account)
    ELSE r

\* process_refresh_ticket
process_refresh_ticket(account, slot, accounts, reserves) ==
    LET ticket == unpack(account) IN
    IF ~ticket.ok THEN Out(ticket, account)
    ELSE
    LET r == refresh_ticket_from(ticket.v, Decimal_zero, 1, accounts, reserves, slot) IN
    IF ~r.res.ok THEN Out(r.res, account)
    ELSE r

\* The outcomes of the token program calls a handler makes after it has written
\* the pool: both succeed, the first fails, the second fails.
TokenOutcomes == {"ok", "first_failed", "second_failed"}

\* process_deposit_pool_liquidity packing the pool without mark_stale
process_deposit_pool_liquidity_unmarked(account, slot, amount, balance, token) ==
    IF amount = 0 THEN Out(Err("InvalidAmount"), account)
    ELSE
    LET reserve == unpack(account) IN
    IF ~reserve.ok THEN Out(reserve, account)
    ELSE
    LET stale == LastUpdate_is_stale(reserve.v.last_update, slot) IN
    IF ~stale.ok THEN Out(stale, account)
    ELSE IF stale.v THEN Out(Err("ReserveStale"), account)
    ELSE IF reserve.v.reentry_lock THEN Out(Err("ReentryLocked"), account)
    ELSE IF reserve.v.config.deposit_paused THEN Out(Err("DepositPaused"), account)
    ELSE IF amount # U64_MAX /\ amount > balance
    THEN Out(Err("DepositAmountTooLarge"), account)
    ELSE
    LET liquidity_amt == IF amount = U64_MAX THEN balance ELSE amount
        d == deposit_liquidity(reserve.v, liquidity_amt)
    IN
    IF ~d.res.ok THEN Out(d.res, account)
    ELSE
    LET packed == d.self IN
    IF token = "first_failed" THEN Out(Err("TokenTransferFailed"), packed)
    ELSE IF token = "second_failed" THEN Out(Err("TokenMintToFailed"), packed)
    ELSE Out(Ok(0), packed)

\* process_deposit_pool_liquidity without the check of last_update
process_deposit_pool_liquidity_unchecked(account, slot, amount, balance, token) ==
    IF amount = 0 THEN Out(Err("InvalidAmount"), account)
    ELSE
    LET reserve == unpack(account) IN
    IF ~reserve.ok THEN Out(reserve, account)
    ELSE IF reserve.v.reentry_lock THEN Out(Err("ReentryLocked"), account)
    ELSE IF reserve.v.config.deposit_paused THEN Out(Err("DepositPaused"), account)
    ELSE IF amount # U64_MAX /\ amount > balance
    THEN Out(Err("DepositAmountTooLarge"), account)
    ELSE
    LET liquidity_amt == IF amount = U64_MAX THEN balance ELSE amount
        d == deposit_liquidity(reserve.v, liquidity_amt)
    IN
    IF ~d.res.ok THEN Out(d.res, account)
    ELSE
    LET packed == [d.self EXCEPT !.last_update = LastUpdate_mark_stale(@)] IN
    IF token = "first_failed" THEN Out(Err("TokenTransferFailed"), packed)
    ELSE IF token = "second_failed" THEN Out(Err("TokenMintToFailed"), packed)
    ELSE Out(Ok(0), packed)

\* process_deposit_pool_liquidity: balance is the amount the source liquidity
\* account holds
process_deposit_pool_liquidity(account, slot, amount, balance, token) ==
    IF amount = 0 THEN Out(Err("InvalidAmount"), account)
    ELSE
    LET reserve == unpack(account) IN
    IF ~reserve.ok THEN Out(reserve, account)
    ELSE
    LET stale == LastUpdate_is_stale(reserve.v.last_update, slot) IN
    IF ~stale.ok THEN Out(stale, account)
    ELSE IF stale.v THEN Out(Err("ReserveStale"), account)
    ELSE IF reserve.v.reentry_lock THEN Out(Err("ReentryLocked"), account)
    ELSE IF reserve.v.config.deposit_paused THEN Out(Err("DepositPaused"), account)
    ELSE IF amount # U64_MAX /\ amount > balance
    THEN Out(Err("DepositAmountTooLarge"), account)
    ELSE
    LET liquidity_amt == IF amount = U64_MAX THEN balance ELSE amount
        d == deposit_liquidity(reserve.v, liquidity_amt)
    IN
    IF ~d.res.ok THEN Out(d.res, account)
    ELSE
    LET packed == [d.self EXCEPT !.last_update = LastUpdate_mark_stale(@)] IN
    IF token = "first_failed" THEN Out(Err("TokenTransferFailed"), packed)
    ELSE IF token = "second_failed" THEN Out(Err("TokenMintToFailed"), packed)
    ELSE Out(Ok(0), packed)

\* process_redeem_pool_collateral: balance is the amount the source collateral
\* account holds
process_redeem_pool_collateral(account, slot, amount, balance, token) ==
    IF amount = 0 THEN Out(Err("InvalidAmount"), account)
    ELSE
    LET reserve == unpack(account) IN
    IF ~reserve.ok THEN Out(reserve, account)
    ELSE
    LET stale == LastUpdate_is_stale(reserve.v.last_update, slot) IN
    IF ~stale.ok THEN Out(stale, account)
    ELSE IF stale.v THEN Out(Err("ReserveStale"), account)
    ELSE IF reserve.v.reentry_lock THEN Out(Err("ReentryLocked"), account)
    ELSE IF amount # U64_MAX /\ amount > balance
    THEN Out(Err("RedeemAmountTooLarge"), account)
    ELSE
    LET collateral_amt == IF amount = U64_MAX THEN balance ELSE amount
        r == redeem_collateral(reserve.v, collateral_amt)
    IN
    IF ~r.res.ok THEN Out(r.res, account)
    ELSE
    LET packed == [r.self EXCEPT !.last_update = LastUpdate_mark_stale(@)] IN
    IF token = "first_failed" THEN Out(Err("TokenBurnFailed"), packed)
    ELSE IF token = "second_failed" THEN Out(Err("TokenTransferFailed"), packed)
    ELSE Out(Ok(0), packed)

\* ------------------------------------------------------------------------
\* Pack: a record as the bytes (0..255) of its account, every field at the
\* offset pack_into_slice and unpack_from_slice give it.
\* ------------------------------------------------------------------------
PUBKEY_BYTES == 32
POOL_MANAGER_LEN == 354
RESERVE_LEN == 646
OBLIGATION_COLLATERAL_LEN == 72
OBLIGATION_LEN == 827
MINING_LEN == 642
MINING_INDEX_LEN == 56

\* uN::to_le_bytes, width bytes
RECURSIVE to_le_bytes(_, _)
to_le_bytes(n, width) ==
    IF width = 0 THEN <<>> ELSE <<n % 256>> \o to_le_bytes(n \div 256, width - 1)

\* uN::from_le_bytes
RECURSIVE from_le_bytes(_)
from_le_bytes(bytes) ==
    IF bytes = <<>> THEN 0 ELSE Head(bytes) + 256 * from_le_bytes(Tail(bytes))

\* The identities that occur in records; an identity's 32 bytes are its
\* number here, Pubkey::default() being all zeros.
PubkeyNames ==
    <<"-", "p1", "p2", "p3", "p4", "p5", "p6", "p7", "p8", "p9", "p10",
      "market", "owner", "pending", "quote", "token_program", "oracle_program",
      "mine_mint", "mine_supply", "liquidity_mint", "liquidity_supply",
      "fee_receiver", "pyth_oracle", "collateral_mint", "collateral_supply",
      "un_coll_supply">>

\* Pubkey::as_ref
Pubkey_as_ref(key) == to_le_bytes(Position(PubkeyNames, key) - 1, PUBKEY_BYTES)
\* Pubkey::new, Pubkey::new_from_array
Pubkey_new(bytes) == PubkeyNames[from_le_bytes(bytes) + 1]

pack_bool(b) == <<IF b THEN 1 ELSE 0>>
unpack_bool(src) ==
    IF src[1] = 0 THEN Ok(FALSE)
    ELSE IF src[1] = 1 THEN Ok(TRUE)
    ELSE Err("InvalidAccountData")

\* What packing a Decimal above the 128 bits of its field does: the call
\* aborts, or the field keeps the low 128 bits.
OversizeOutcomes == {"abort", "truncate"}

\* pack_decimal: the scaled value, 16 bytes little-endian
pack_decimal(d, oversize) ==
    IF d <= U128_MAX THEN to_le_bytes(d, 16)
    ELSE IF oversize = "truncate" THEN to_le_bytes(d % (U128_MAX + 1), 16)
    ELSE <<>>
unpack_decimal(src) == from_le_bytes(src)

\* array_refs!, mut_array_refs!: the slices of the given widths, in order
RECURSIVE array_refs(_, _)
array_refs(input, widths) ==
    IF widths = <<>> THEN <<>>
    ELSE <<SubSeq(input, 1, Head(widths))>>
           \o array_refs(SubSeq(input, Head(widths) + 1, Len(input)), Tail(widths))

RECURSIVE Concat(_)
Concat(seqs) == IF seqs = <<>> THEN <<>> ELSE Head(seqs) \o Concat(Tail(seqs))

\* The outcome of pack_into_slice: the bytes, unless a slice did not have
\* its width (a list longer than its area, a Decimal that aborted)
Packed(bytes, len) == IF Len(bytes) = len THEN Ok(bytes) ELSE Err("Abort")

PoolManagerLayout ==
    <<1, 1, PUBKEY_BYTES, PUBKEY_BYTES, PUBKEY_BYTES, PUBKEY_BYTES, PUBKEY_BYTES,
      PUBKEY_BYTES, PUBKEY_BYTES, 128>>

\* PoolManager::pack_into_slice; output is the account's data before
PoolManager_pack_into_slice(self, output) ==
    LET old == array_refs(output, PoolManagerLayout) IN
    Packed(to_le_bytes(self.version, 1)
           \o to_le_bytes(self.bump_seed, 1)
           \o Pubkey_as_ref(self.pending_owner)
           \o Pubkey_as_ref(self.owner)
           \o Pubkey_as_ref(self.quote_currency)
           \o Pubkey_as_ref(self.token_program_id)
           \o Pubkey_as_ref(self.oracle_program_id)
           \o Pubkey_as_ref(self.mine_mint)
           \o Pubkey_as_ref(self.mine_supply_account)
           \o old[10],
           POOL_MANAGER_LEN)

\* PoolManager::unpack_from_slice accepting every version
PoolManager_unpack_from_slice_any_version(input) ==
    LET f == array_refs(input, PoolManagerLayout)
        version == from_le_bytes(f[1])
    IN Ok([version |-> version,
           bump_seed |-> from_le_bytes(f[2]),
           pending_owner |-> Pubkey_new(f[3]),
           owner |-> Pubkey_new(f[4]),
           quote_currency |-> Pubkey_new(f[5]),
           token_program_id |-> Pubkey_new(f[6]),
           oracle_program_id |-> Pubkey_new(f[7]),
           mine_mint |-> Pubkey_new(f[8]),
           mine_supply_account |-> Pubkey_new(f[9])])

\* PoolManager::unpack_from_slice
PoolManager_unpack_from_slice(input) ==
    LET f == array_refs(input, PoolManagerLayout)
        version == from_le_bytes(f[1])
    IN IF version > PROGRAM_VERSION THEN Err("InvalidAccountData")
       ELSE Ok([version |-> version,
                bump_seed |-> from_le_bytes(f[2]),
                pending_owner |-> Pubkey_new(f[3]),
                owner |-> Pubkey_new(f[4]),
                quote_currency |-> Pubkey_new(f[5]),
                token_program_id |-> Pubkey_new(f[6]),
                oracle_program_id |-> Pubkey_new(f[7]),
                mine_mint |-> Pubkey_new(f[8]),
                mine_supply_account |-> Pubkey_new(f[9])])

\* The identities and the oracle flag of a Pool, which no operation modelled
\* here reads: the Pool as its account holds it
PoolAccount(pool) ==
    [version |-> pool.version,
     last_update |-> pool.last_update,
     pool_manager |-> "market",
     liquidity |-> [mint_pubkey |-> "liquidity_mint",
                    mint_decimals |-> pool.liquidity.mint_decimals,
                    supply_pubkey |-> "liquidity_supply",
                    fee_receiver |-> "fee_receiver",
                    use_pyth_oracle |-> TRUE,
                    pyth_oracle_pubkey |-> "pyth_oracle",
                    available_amount |-> pool.liquidity.available_amount,
                    borrowed_amount_wads |-> pool.liquidity.borrowed_amount_wads,
                    cumulative_borrow_rate_wads |-> pool.liquidity.cumulative_borrow_rate_wads,
                    market_price |-> pool.liquidity.market_price,
                    owner_unclaimed |-> pool.liquidity.owner_unclaimed],
     collateral |-> [mint_pubkey |-> "collateral_mint",
                     mint_total_supply |-> pool.collateral.mint_total_supply,
                     supply_pubkey |-> "collateral_supply"],
     config |-> pool.config,
     lottery |-> [un_coll_supply_account |-> "un_coll_supply",
                  l_token_mining_index |-> pool.lottery.l_token_mining_index,
                  borrow_mining_index |-> pool.lottery.borrow_mining_index,
                  total_mining_speed |-> pool.lottery.total_mining_speed,
                  kink_util_rate |-> pool.lottery.kink_util_rate],
     reentry_lock |-> pool.reentry_lock]

PoolLayout ==
    <<1, 8, 1, PUBKEY_BYTES, PUBKEY_BYTES, 1, PUBKEY_BYTES, PUBKEY_BYTES, 1,
      PUBKEY_BYTES, 8, 16, 16, 16, 16, PUBKEY_BYTES, 8, PUBKEY_BYTES, 1,
      PUBKEY_BYTES, 16, 16, 8, 8, 1, 248>>

\* Pool::pack_into_slice
Pool_pack_into_slice(self, output, oversize) ==
    LET old == array_refs(output, PoolLayout) IN
    Packed(to_le_bytes(self.version, 1)
           \o to_le_bytes(self.last_update.slot, 8)
           \o pack_bool(self.last_update.stale)
           \o Pubkey_as_ref(self.pool_manager)
           \o Pubkey_as_ref(self.liquidity.mint_pubkey)
           \o to_le_bytes(self.liquidity.mint_decimals, 1)
           \o Pubkey_as_ref(self.liquidity.supply_pubkey)
           \o Pubkey_as_ref(self.liquidity.fee_receiver)
           \o pack_bool(self.liquidity.use_pyth_oracle)
           \o Pubkey_as_ref(self.liquidity.pyth_oracle_pubkey)
           \o to_le_bytes(self.liquidity.available_amount, 8)
           \o pack_decimal(self.liquidity.borrowed_amount_wads, oversize)
           \o pack_decimal(self.liquidity.cumulative_borrow_rate_wads, oversize)
           \o pack_decimal(self.liquidity.market_price, oversize)
           \o pack_decimal(self.liquidity.owner_unclaimed, oversize)
           \o Pubkey_as_ref(self.collateral.mint_pubkey)
           \o to_le_bytes(self.collateral.mint_total_supply, 8)
           \o Pubkey_as_ref(self.collateral.supply_pubkey)
           \o pack_bool(self.config.deposit_paused)
           \o Pubkey_as_ref(self.lottery.un_coll_supply_account)
           \o pack_decimal(self.lottery.l_token_mining_index, oversize)
           \o pack_decimal(self.lottery.borrow_mining_index, oversize)
           \o to_le_bytes(self.lottery.total_mining_speed, 8)
           \o to_le_bytes(self.lottery.kink_util_rate, 8)
           \o pack_bool(self.reentry_lock)
           \o old[26],
           RESERVE_LEN)

\* Pool::unpack_from_slice
Pool_unpack_from_slice(input) ==
    LET f == array_refs(input, PoolLayout)
        version == from_le_bytes(f[1])
        stale == unpack_bool(f[3])
        use_pyth_oracle == unpack_bool(f[9])
        deposit_paused == unpack_bool(f[19])
        reentry_lock == unpack_bool(f[25])
    IN IF version > PROGRAM_VERSION THEN Err("InvalidAccountData")
       ELSE IF ~stale.ok THEN stale
       ELSE IF ~use_pyth_oracle.ok THEN use_pyth_oracle
       ELSE IF ~deposit_paused.ok THEN deposit_paused
       ELSE IF ~reentry_lock.ok THEN reentry_lock
       ELSE Ok([version |-> version,
                last_update |-> [slot |-> from_le_bytes(f[2]), stale |-> stale.v],
                pool_manager |-> Pubkey_new(f[4]),
                liquidity |-> [mint_pubkey |-> Pubkey_new(f[5]),
                               mint_decimals |-> from_le_bytes(f[6]),
                               supply_pubkey |-> Pubkey_new(f[7]),
                               fee_receiver |-> Pubkey_new(f[8]),
                               use_pyth_oracle |-> use_pyth_oracle.v,
                               pyth_oracle_pubkey |-> Pubkey_new(f[10]),
                               available_amount |-> from_le_bytes(f[11]),
                               borrowed_amount_wads |-> unpack_decimal(f[12]),
                               cumulative_borrow_rate_wads |-> unpack_decimal(f[13]),
                               market_price |-> unpack_decimal(f[14]),
                               owner_unclaimed |-> unpack_decimal(f[15])],
                collateral |-> [mint_pubkey |-> Pubkey_new(f[16]),
                                mint_total_supply |-> from_le_bytes(f[17]),
                                supply_pubkey |-> Pubkey_new(f[18])],
                config |-> [deposit_paused |-> deposit_paused.v],
                lottery |-> [un_coll_supply_account |-> Pubkey_new(f[20]),
                             l_token_mining_index |-> unpack_decimal(f[21]),
                             borrow_mining_index |-> unpack_decimal(f[22]),
                             total_mining_speed |-> from_le_bytes(f[23]),
                             kink_util_rate |-> from_le_bytes(f[24])],
                reentry_lock |-> reentry_lock.v])

\* The Ticket as its account holds it, with the identities no operation
\* modelled here reads
TicketAccount(t) ==
    [version |-> t.version,
     last_update |-> t.last_update,
     pool_manager |-> "market",
     owner |-> "owner",
     deposits |-> t.deposits,
     deposited_value |-> t.deposited_value,
     unclaimed_mine |-> t.unclaimed_mine]

TicketLayout ==
    <<1, 8, 1, PUBKEY_BYTES, PUBKEY_BYTES, 16, 1, 16,
      OBLIGATION_COLLATERAL_LEN * MAX_OBLIGATION_RESERVES>>
TicketCollateralLayout == <<PUBKEY_BYTES, 8, 16, 16>>

\* Ticket::pack_into_slice: the entries from the start of their area, the
\* rest of the area as it was
Ticket_pack_into_slice(self, output, oversize) ==
    LET old == array_refs(output, TicketLayout)
        entries == Concat([i \in 1..Len(self.deposits) |->
                             Pubkey_as_ref(self.deposits[i].deposit_reserve)
                             \o to_le_bytes(self.deposits[i].deposited_amount, 8)
                             \o pack_decimal(self.deposits[i].market_value, oversize)
                             \o pack_decimal(self.deposits[i].index, oversize)])
    IN
    Packed(to_le_bytes(self.version, 1)
           \o to_le_bytes(self.last_update.slot, 8)
           \o pack_bool(self.last_update.stale)
           \o Pubkey_as_ref(self.pool_manager)
           \o Pubkey_as_ref(self.owner)
           \o pack_decimal(self.deposited_value, oversize)
           \o to_le_bytes(Len(self.deposits), 1)
           \o pack_decimal(self.unclaimed_mine, oversize)
           \o entries
           \o SubSeq(old[9], Len(entries) + 1, Len(old[9])),
           OBLIGATION_LEN)

\* Ticket::unpack_from_slice
Ticket_unpack_from_slice(src) ==
    LET f == array_refs(src, TicketLayout)
        version == from_le_bytes(f[1])
        deposits_len == from_le_bytes(f[7])
        stale == unpack_bool(f[3])
        entry(i) == array_refs(SubSeq(f[9], (i - 1) * OBLIGATION_COLLATERAL_LEN + 1,
                                      i * OBLIGATION_COLLATERAL_LEN),
                               TicketCollateralLayout)
    IN IF version > PROGRAM_VERSION THEN Err("InvalidAccountData")
       ELSE IF deposits_len > MAX_OBLIGATION_RESERVES THEN Err("Abort")
       ELSE IF ~stale.ok THEN stale
       ELSE Ok([version |-> version,
                last_update |-> [slot |-> from_le_bytes(f[2]), stale |-> stale.v],
                pool_manager |-> Pubkey_new(f[4]),
                owner |-> Pubkey_new(f[5]),
                deposits |-> [i \in 1..deposits_len |->
                                [index |-> unpack_decimal(entry(i)[4]),
                                 deposit_reserve |-> Pubkey_new(entry(i)[1]),
                                 deposited_amount |-> from_le_bytes(entry(i)[2]),
                                 market_value |-> unpack_decimal(entry(i)[3])]],
                deposited_value |-> unpack_decimal(f[6]),
                unclaimed_mine |-> unpack_decimal(f[8])])

\* The Mining as its account holds it
MiningAccount(m) ==
    [version |-> m.version,
     owner |-> "owner",
     pool_manager |-> "market",
     mining_indices |-> m.mining_indices,
     unclaimed_mine |-> m.unclaimed_mine]

MiningLayout ==
    <<1, PUBKEY_BYTES, PUBKEY_BYTES, 1, 16, MAX_MINING_VOLUME * MINING_INDEX_LEN>>
MiningIndexLayout == <<PUBKEY_BYTES, 8, 16>>

\* Mining::pack_into_slice
Mining_pack_into_slice(self, output, oversize) ==
    LET old == array_refs(output, MiningLayout)
        entries == Concat([i \in 1..Len(self.mining_indices) |->
                             Pubkey_as_ref(self.mining_indices[i].reserve)
                             \o to_le_bytes(self.mining_indices[i].un_coll_l_token_amount, 8)
                             \o pack_decimal(self.mining_indices[i].index, oversize)])
    IN
    Packed(to_le_bytes(self.version, 1)
           \o Pubkey_as_ref(self.owner)
           \o Pubkey_as_ref(self.pool_manager)
           \o to_le_bytes(Len(self.mining_indices), 1)
           \o pack_decimal(self.unclaimed_mine, oversize)
           \o entries
           \o SubSeq(old[6], Len(entries) + 1, Len(old[6])),
           MINING_LEN)

\* Mining::unpack_from_slice
Mining_unpack_from_slice(src) ==
    LET f == array_refs(src, MiningLayout)
        version == from_le_bytes(f[1])
        reserves_len == from_le_bytes(f[4])
        entry(i) == array_refs(SubSeq(f[6], (i - 1) * MINING_INDEX_LEN + 1,
                                      i * MINING_INDEX_LEN),
                               MiningIndexLayout)
    IN IF version > PROGRAM_VERSION THEN Err("InvalidAccountData")
       ELSE IF reserves_len > MAX_MINING_VOLUME THEN Err("Abort")
       ELSE Ok([version |-> version,
                owner |-> Pubkey_new(f[2]),
                pool_manager |-> Pubkey_new(f[3]),
                mining_indices |-> [i \in 1..reserves_len |->
                                      [reserve |-> Pubkey_new(entry(i)[1]),
                                       index |-> unpack_decimal(entry(i)[3]),
                                       un_coll_l_token_amount |-> from_le_bytes(entry(i)[2])]],
                unclaimed_mine |-> unpack_decimal(f[5])])

\* ------------------------------------------------------------------------
\* The program as a state machine: the accounts, the clock, and the last
\* operation with its inputs, its result and the records it found.
\* ------------------------------------------------------------------------
VARIABLES
    clock,      \* the Clock sysvar's slot
    pools,      \* the Pool record of each pool
    ticket,     \* the Ticket record
    mining,     \* the Mining record
    manager,    \* the PoolManager record
    pc,         \* where a deposit or redeem in progress stands: "idle" when none is
    ops,        \* how many operations have changed a record
    owed,       \* the reward the index increases owe the ticket's and the mining's entry
    hist        \* the last operation: its inputs, its result, the records before it

vars == <<clock, pools, ticket, mining, manager, pc, ops, owed, hist>>

\* Bounds of the model
MaxSlot == 2
MaxOps == 3

PoolIds == {"p1", "p2"}

Hist(op, pool, a, b, res) ==
    [op |-> op, pool |-> pool, a |-> a, b |-> b, res |-> res, slot |-> clock,
     pools |-> pools, ticket |-> ticket, mining |-> mining, manager |-> manager]

\* No index increase has happened
NoneOwed == [ticket |-> 0, mining |-> 0]

NoHist ==
    [op |-> "none", pool |-> "-", a |-> 0, b |-> 0, res |-> Ok(0), slot |-> 0,
     pools |-> [p \in PoolIds |-> Pool_default], ticket |-> Ticket_default,
     mining |-> Mining_default, manager |-> PoolManager_default]

\* ------------------------------------------------------------------------
\* The instructions of processor.rs on the account of pool p1
\* ------------------------------------------------------------------------
\* (price, exponent) pairs of the oracle
InitPrices == {<<0 - 1, 0>>, <<3, 0>>}
OraclePrices == {<<0 - 1, 0>>, <<25, 0 - 1>>, <<200, 0>>}
MiningSpeeds == {3}
MintDecimals == {1}
\* (amount, balance of the source account) pairs
DepositInputs == {<<0, 4>>, <<4, 4>>, <<5, 4>>, <<U64_MAX, 0>>, <<U64_MAX, 6>>}
RedeemInputs == {<<0, 4>>, <<4, 4>>, <<5, 4>>, <<U64_MAX, 6>>}

Init ==
    /\ clock = 0
    /\ pools = [p \in PoolIds |-> Pool_default]
    /\ ticket = Ticket_default
    /\ mining = Mining_default
    /\ ops = 0
    /\ manager = PoolManager_default
    /\ pc = "idle"
    /\ owed = NoneOwed
    /\ hist = NoHist

\* The clock advances
Tick ==
    /\ clock < MaxSlot
    /\ clock' = clock + 1
    /\ hist' = Hist("Tick", "-", 0, 0, Ok(0))
    /\ UNCHANGED <<owed, manager, pc, pools, ticket, mining, ops>>

InitPoolWith(p, pauses, prices) ==
    \E paused \in pauses, speed \in MiningSpeeds, dec \in MintDecimals, px \in prices :
        LET out == process_init_pool(pools[p], clock, [deposit_paused |-> paused],
                                     speed, 0, dec, px[1], px[2])
        IN /\ pools' = [pools EXCEPT ![p] = out.self]
           /\ hist' = Hist("InitPool", p, px[1], px[2], out.res)
           /\ UNCHANGED <<owed, manager, pc, clock, ticket, mining, ops>>

InitPool(p) == InitPoolWith(p, BOOLEAN, InitPrices)

RefreshPoolWith(p, prices) ==
    \E px \in prices :
        LET out == process_refresh_reserve(pools[p], clock, px[1], px[2])
        IN /\ pools' = [pools EXCEPT ![p] = out.self]
           /\ hist' = Hist("RefreshPool", p, px[1], px[2], out.res)
           /\ UNCHANGED <<owed, manager, pc, clock, ticket, mining, ops>>

RefreshPool(p) == RefreshPoolWith(p, OraclePrices)

DepositPoolLiquidity(p) ==
    \E in \in DepositInputs, token \in TokenOutcomes :
        LET out == process_deposit_pool_liquidity(pools[p], clock, in[1], in[2], token)
        IN /\ out.self # pools[p] => ops < MaxOps
           /\ pools' = [pools EXCEPT ![p] = out.self]
           /\ ops' = IF out.self # pools[p] THEN ops + 1 ELSE ops
           /\ hist' = Hist("DepositPoolLiquidity", p, in[1], in[2], out.res)
           /\ UNCHANGED <<owed, manager, pc, clock, ticket, mining>>

RedeemPoolCollateral(p) ==
    \E in \in RedeemInputs, token \in TokenOutcomes :
        LET out == process_redeem_pool_collateral(pools[p], clock, in[1], in[2], token)
        IN /\ out.self # pools[p] => ops < MaxOps
           /\ pools' = [pools EXCEPT ![p] = out.self]
           /\ ops' = IF out.self # pools[p] THEN ops + 1 ELSE ops
           /\ hist' = Hist("RedeemPoolCollateral", p, in[1], in[2], out.res)
           /\ UNCHANGED <<owed, manager, pc, clock, ticket, mining>>

Next ==
    \/ Tick
    \/ InitPool("p1")
    \/ RefreshPool("p1")
    \/ DepositPoolLiquidity("p1")
    \/ RedeemPoolCollateral("p1")

Spec == Init /\ [][Next]_vars

\* ------------------------------------------------------------------------
\* DepositPoolLiquidity and RedeemPoolCollateral step by step: the checks,
\* the change and Pool::pack, then the two calls into the token program, one
\* after the other.  While the calls are outstanding the transaction can
\* invoke the program again on the same pool: the instructions above, at pc
\* other than "idle", are such nested calls.
\* ------------------------------------------------------------------------
InitNested ==
    /\ clock = 0
    /\ pools = [p \in PoolIds |->
                  process_init_pool(Pool_default, 0, [deposit_paused |-> FALSE],
                                    3, 0, 1, 3, 0).self]
    /\ ticket = Ticket_default
    /\ mining = Mining_default
    /\ manager = PoolManager_default
    /\ pc = "idle"
    /\ ops = 0
    /\ owed = NoneOwed
    /\ hist = NoHist

\* process_deposit_pool_liquidity up to Pool::pack
BeginDeposit(p) ==
    \E in \in DepositInputs :
        LET out == process_deposit_pool_liquidity(pools[p], clock, in[1], in[2], "ok")
        IN /\ pc = "idle"
           /\ out.res.ok => ops < MaxOps
           /\ pools' = [pools EXCEPT ![p] = out.self]
           /\ pc' = IF out.res.ok THEN "spl_token_transfer" ELSE "idle"
           /\ ops' = IF out.res.ok THEN ops + 1 ELSE ops
           /\ hist' = Hist("BeginDeposit", p, in[1], in[2], out.res)
           /\ UNCHANGED <<owed, clock, ticket, mining, manager>>

\* process_redeem_pool_collateral up to Pool::pack
BeginRedeem(p) ==
    \E in \in RedeemInputs :
        LET out == process_redeem_pool_collateral(pools[p], clock, in[1], in[2], "ok")
        IN /\ pc = "idle"
           /\ out.res.ok => ops < MaxOps
           /\ pools' = [pools EXCEPT ![p] = out.self]
           /\ pc' = IF out.res.ok THEN "spl_token_burn" ELSE "idle"
           /\ ops' = IF out.res.ok THEN ops + 1 ELSE ops
           /\ hist' = Hist("BeginRedeem", p, in[1], in[2], out.res)
           /\ UNCHANGED <<owed, clock, ticket, mining, manager>>

\* One call into the token program returns: the handler goes on to its
\* second call, or returns
TokenCallReturns ==
    \E done \in BOOLEAN :
        /\ pc # "idle"
        /\ pc' = IF ~done THEN "idle"
                 ELSE IF pc = "spl_token_transfer" THEN "spl_token_mint_to"
                 ELSE IF pc = "spl_token_burn" THEN "spl_token_transfer_out"
                 ELSE "idle"
        /\ hist' = Hist(pc, "p1", 0, 0, IF done THEN Ok(0) ELSE Err("TokenCallFailed"))
        /\ UNCHANGED <<owed, clock, pools, ticket, mining, manager, ops>>

NextNested ==
    \/ BeginDeposit("p1")
    \/ BeginRedeem("p1")
    \/ TokenCallReturns
    \/ RefreshPool("p1")
    \/ DepositPoolLiquidity("p1")
    \/ RedeemPoolCollateral("p1")

SpecNested == InitNested /\ [][NextNested]_vars

\* ------------------------------------------------------------------------
\* RefreshTicket over a ticket that holds claim tokens of the pools
\* ------------------------------------------------------------------------
\* The prices RefreshPool reads for p1; p2 is created and never refreshed, so
\* it is the stale pool of a ticket
TicketOraclePrices == {<<25, 0 - 1>>, <<200, 0>>}
CollateralAmounts == {4, U64_MAX}

\* Every sequence of at most two pool accounts, the accounts RefreshTicket is given
AccountLists ==
    {<<>>} \cup {<<p>> : p \in PoolIds} \cup {<<p, q>> : p \in PoolIds, q \in PoolIds}

InitTicket ==
    LET out == process_init_ticket(ticket, clock)
    IN /\ ticket' = out.self
       /\ hist' = Hist("InitTicket", "-", 0, 0, out.res)
       /\ UNCHANGED <<owed, manager, pc, clock, pools, mining, ops>>

RefreshTicket ==
    \E accounts \in AccountLists :
        LET out == process_refresh_ticket(ticket, clock, accounts, pools)
        IN /\ ticket' = out.self
           /\ hist' = [Hist("RefreshTicket", "-", 0, 0, out.res) EXCEPT !.a = accounts]
           /\ UNCHANGED <<owed, manager, pc, clock, pools, mining, ops>>

\* The deposit of claim tokens into the ticket.  The handler that does it
\* (DepositObligationCollateral) is disabled in processor.rs; the action applies
\* the Ticket operations such a handler is built from:
\* find_or_add_collateral_to_deposits with the pool's current index, then deposit.
TicketDepositCollateral(p) ==
    \E amount \in CollateralAmounts :
        /\ ops < MaxOps
        /\ ticket.version # UNINITIALIZED_VERSION
        /\ pools[p].version # UNINITIALIZED_VERSION
        /\ LET f == find_or_add_collateral_to_deposits(
                        ticket, p, pools[p].lottery.l_token_mining_index)
               d == Ticket_deposit(f.self, f.res.v, amount)
           IN /\ f.res.ok
              /\ ticket' = IF d.res.ok
                           THEN [d.self EXCEPT !.last_update = LastUpdate_mark_stale(@)]
                           ELSE ticket
              /\ hist' = Hist("TicketDepositCollateral", p, amount, 0, d.res)
        /\ ops' = ops + 1
        /\ UNCHANGED <<owed, manager, pc, clock, pools, mining>>

\* Both pools have been created by InitPool in slot 0
InitTicketSpec ==
    /\ clock = 0
    /\ pools = [p \in PoolIds |->
                  process_init_pool(Pool_default, 0, [deposit_paused |-> FALSE],
                                    3, 0, 1, 3, 0).self]
    /\ ticket = Ticket_default
    /\ mining = Mining_default
    /\ ops = 0
    /\ manager = PoolManager_default
    /\ pc = "idle"
    /\ owed = NoneOwed
    /\ hist = NoHist

NextTicket ==
    \/ Tick
    \/ InitTicket
    \/ RefreshTicket
    \/ RefreshPoolWith("p1", TicketOraclePrices)
    \/ \E p \in PoolIds : TicketDepositCollateral(p)

SpecTicket == InitTicketSpec /\ [][NextTicket]_vars

\* ------------------------------------------------------------------------
\* RefreshTicket over tickets whose pools have exchange rates other than 1:
\* the counters of the pools and the entries of the ticket are drawn from
\* small sets.
\* ------------------------------------------------------------------------
\* (available_amount, mint_total_supply) of pool p1: rates 1, 0.4 and 2.5
ValuedCounters == {<<4, 4>>, <<10, 4>>, <<4, 10>>}
\* The (pool, deposited_amount) entries of the ticket, in order
ValuedDeposits == {<<>>, <<<<"p1", 7>>>>, <<<<"p1", 4>>, <<"p2", 7>>>>, <<<<"p2", 4>>, <<"p1", 7>>>>}

\* An initialized pool with the counters given
ValuedPool(available, supply) ==
    [process_init_pool(Pool_default, 0, [deposit_paused |-> FALSE], 3, 0, 1, 3, 0).self
        EXCEPT !.liquidity.available_amount = available,
               !.collateral.mint_total_supply = supply]

\* The ticket after a deposit into each entry of the list, added at index 0
RECURSIVE ValuedTicket(_)
ValuedTicket(entries) ==
    IF entries = <<>> THEN Ticket_init(Ticket_default, 0, <<>>)
    ELSE LET n == Len(entries)
             f == find_or_add_collateral_to_deposits(
                      ValuedTicket(SubSeq(entries, 1, n - 1)), entries[n][1], Decimal_zero)
         IN Ticket_deposit(f.self, f.res.v, entries[n][2]).self

InitTicketValues ==
    /\ clock = 0
    /\ \E c \in ValuedCounters :
          pools = [p \in PoolIds |->
                     IF p = "p1" THEN ValuedPool(c[1], c[2]) ELSE ValuedPool(4, 10)]
    /\ \E entries \in ValuedDeposits : ticket = ValuedTicket(entries)
    /\ mining = Mining_default
    /\ ops = 0
    /\ manager = PoolManager_default
    /\ pc = "idle"
    /\ owed = NoneOwed
    /\ hist = NoHist

NextTicketValues ==
    \/ Tick
    \/ RefreshTicket
    \/ \E p \in PoolIds : RefreshPoolWith(p, TicketOraclePrices)

SpecTicketValues == InitTicketValues /\ [][NextTicketValues]_vars

\* ------------------------------------------------------------------------
\* The three init instructions among the other instructions, from accounts
\* that are all uninitialized, within one slot
\* ------------------------------------------------------------------------
Authorities == {InitPoolManagerAuthority, "o1"}
Owners == {"o1", "o2"}

InitPoolManager ==
    \E authority \in Authorities, is_signer \in BOOLEAN, owner \in Owners :
        LET out == process_init_pool_manager(manager, authority, is_signer, owner)
        IN /\ manager' = out.self
           /\ hist' = Hist("InitPoolManager", "-", authority, is_signer, out.res)
           /\ UNCHANGED <<owed, pc, clock, pools, ticket, mining, ops>>

SetPoolManagerOwner ==
    \E new_owner \in Owners :
        LET out == process_set_pool_manager_owner(manager, new_owner)
        IN /\ manager' = out.self
           /\ hist' = Hist("SetPoolManagerOwner", "-", new_owner, 0, out.res)
           /\ UNCHANGED <<owed, pc, clock, pools, ticket, mining, ops>>

LotteryDraw ==
    LET out == process_lottery_draw(manager)
    IN /\ manager' = out.self
       /\ hist' = Hist("LotteryDraw", "-", 0, 0, out.res)
       /\ UNCHANGED <<owed, pc, clock, pools, ticket, mining, ops>>

NextInit ==
    \/ InitPoolManager
    \/ SetPoolManagerOwner
    \/ LotteryDraw
    \/ InitPool("p1")
    \/ InitTicket
    \/ RefreshPoolWith("p1", TicketOraclePrices)
    \/ RefreshTicket
    \/ DepositPoolLiquidity("p1")
    \/ RedeemPoolCollateral("p1")
    \/ TicketDepositCollateral("p1")

SpecInit == Init /\ [][NextInit]_vars

\* ------------------------------------------------------------------------
\* RefreshPool over the prices an oracle account can hold: negative, zero,
\* positive, and positive with an exponent that takes it below one unit of
\* the Decimal scale
\* ------------------------------------------------------------------------
OracleValues == {<<0 - 1, 0>>, <<0, 0>>, <<1, 0 - 3>>, <<25, 0 - 1>>, <<200, 0>>}

NextOracle ==
    \/ Tick
    \/ InitPoolWith("p1", {FALSE}, InitPrices)
    \/ RefreshPoolWith("p1", OracleValues)
    \/ DepositPoolLiquidity("p1")

SpecOracle == Init /\ [][NextOracle]_vars

\* ------------------------------------------------------------------------
\* The operations of state/pool.rs called on a Pool in memory: what a caller
\* holding the record can do with the public functions of Pool,
\* ReserveLiquidity and LastUpdate.  The record is pools["p1"].
\* ------------------------------------------------------------------------
LiquidityAmounts == {0, 4, 14, 1700, U64_MAX}
RedeemAmounts == {1, 4, U64_MAX}
\* Decimal amounts borrowed
BorrowAmounts == {WAD + HALF_WAD}
\* (repay_amount, settle_amount) pairs: interest paid in, and a loan repaid
RepayInputs == {<<10, 0>>, <<2, WAD + HALF_WAD>>}

\* Pool::new
Pool_new(current_slot, liquidity, collateral, config, lottery) ==
    Pool_init(Pool_default, current_slot, liquidity, collateral, config, lottery)

InitPoolApi ==
    /\ clock = 0
    /\ pools = [p \in PoolIds |->
                  IF p = "p1"
                  THEN Pool_new(0, ReserveLiquidity_new(1, 3 * WAD), ReserveCollateral_new,
                                [deposit_paused |-> FALSE], Lottery_new(3, 0))
                  ELSE Pool_default]
    /\ ticket = Ticket_default
    /\ mining = Mining_default
    /\ ops = 0
    /\ manager = PoolManager_default
    /\ pc = "idle"
    /\ owed = NoneOwed
    /\ hist = NoHist

\* A call on the record.  The caller keeps the record a successful call leaves
\* and drops its copy when the call fails, as every handler of processor.rs
\* does with `?`; ops counts the calls that changed the record.
Applied(op, a, b, out) ==
    LET kept == IF out.res.ok THEN out.self ELSE pools["p1"]
    IN /\ kept # pools["p1"] => ops < MaxOps
       /\ pools' = [pools EXCEPT !["p1"] = kept]
       /\ ops' = IF kept # pools["p1"] THEN ops + 1 ELSE ops
       /\ hist' = Hist(op, "p1", a, b, out.res)
       /\ UNCHANGED <<owed, manager, pc, clock, ticket, mining>>

\* hist.b is the value the call leaves in the Pool it was called on
CallRefreshIndex ==
    \E slot \in 0..MaxSlot :
        LET out == refresh_index(pools["p1"], slot)
        IN Applied("refresh_index", slot, out.self, out)

\* last_update.update_slot(slot), what a caller does after a refresh; slots
\* do not go back
CallUpdateSlot ==
    \E slot \in 0..MaxSlot :
        /\ slot >= pools["p1"].last_update.slot
        /\ pools' = [pools EXCEPT !["p1"].last_update = LastUpdate_update_slot(@, slot)]
        /\ hist' = Hist("update_slot", "p1", slot, 0, Ok(0))
        /\ UNCHANGED <<owed, manager, pc, clock, ticket, mining, ops>>

CallDepositLiquidity ==
    \E amount \in LiquidityAmounts :
        LET out == deposit_liquidity(pools["p1"], amount)
        IN Applied("deposit_liquidity", amount, out.self, out)

CallRedeemCollateral ==
    \E amount \in RedeemAmounts :
        LET out == redeem_collateral(pools["p1"], amount)
        IN Applied("redeem_collateral", amount, out.self, out)

CallBorrow ==
    \E amount \in BorrowAmounts :
        LET out == ReserveLiquidity_borrow(pools["p1"].liquidity, amount)
        IN Applied("borrow", amount, 0,
                   Out(out.res, [pools["p1"] EXCEPT !.liquidity = out.self]))

CallRepay ==
    \E in \in RepayInputs :
        LET out == ReserveLiquidity_repay(pools["p1"].liquidity, in[1], in[2])
        IN Applied("repay", in[1], in[2],
                   Out(out.res, [pools["p1"] EXCEPT !.liquidity = out.self]))

NextPoolApi ==
    \/ CallRefreshIndex
    \/ CallUpdateSlot
    \/ CallDepositLiquidity
    \/ CallRedeemCollateral
    \/ CallBorrow
    \/ CallRepay

SpecPool == InitPoolApi /\ [][NextPoolApi]_vars

\* ------------------------------------------------------------------------
\* A new Pool on which only deposit_liquidity and redeem_collateral are
\* called: no borrow, no repay, no owner fee.
\* ------------------------------------------------------------------------
\* redeem_collateral of the whole claim-token supply
CallRedeemSupply ==
    LET amount == pools["p1"].collateral.mint_total_supply
        out == redeem_collateral(pools["p1"], amount)
    IN Applied("redeem_collateral", amount, out.self, out)

NextDepositRedeem ==
    \/ CallDepositLiquidity
    \/ CallRedeemCollateral
    \/ CallRedeemSupply

SpecDepositRedeem == InitPoolApi /\ [][NextDepositRedeem]_vars

\* ------------------------------------------------------------------------
\* deposit_liquidity and redeem_collateral called on the Pool values that
\* Pool::unpack_from_slice restores from an account: the counters of
\* ReserveLiquidity and ReserveCollateral are drawn from small sets.
\* ------------------------------------------------------------------------
AvailableAmounts == {0, 4, 10}
OwnerUnclaimed == {Decimal_zero, WAD + HALF_WAD, 4 * WAD, 11 * WAD}
BorrowedAmounts == {Decimal_zero, 4 * WAD}
MintSupplies == {0, 4, 10}

InitPoolValues ==
    /\ clock = 0
    /\ \E available \in AvailableAmounts, owner \in OwnerUnclaimed,
          borrowed \in BorrowedAmounts, supply \in MintSupplies :
          pools = [p \in PoolIds |->
                     IF p = "p1"
                     THEN [Pool_new(0, ReserveLiquidity_new(1, 3 * WAD), ReserveCollateral_new,
                                    [deposit_paused |-> FALSE], Lottery_new(3, 0))
                             EXCEPT !.liquidity.available_amount = available,
                                    !.liquidity.owner_unclaimed = owner,
                                    !.liquidity.borrowed_amount_wads = borrowed,
                                    !.collateral.mint_total_supply = supply]
                     ELSE Pool_default]
    /\ ticket = Ticket_default
    /\ mining = Mining_default
    /\ ops = 0
    /\ manager = PoolManager_default
    /\ pc = "idle"
    /\ owed = NoneOwed
    /\ hist = NoHist

NextPoolValues ==
    \/ CallDepositLiquidity
    \/ CallRedeemCollateral

SpecPoolValues == InitPoolValues /\ [][NextPoolValues]_vars

\* ------------------------------------------------------------------------
\* refresh_index called on Pool values: the fields it reads are drawn from
\* small sets that hold the values of Default (0) and the largest Decimal.
\* ------------------------------------------------------------------------
IndexSupplies == {0, 4}
IndexBorrowed == {Decimal_zero, HALF_WAD, Decimal_one, WAD + HALF_WAD}
CumulativeBorrowRates == {Decimal_zero, Decimal_one}
MiningIndexValues == {Decimal_zero, U192_MAX}

InitIndexValues ==
    /\ clock = 0
    /\ \E supply \in IndexSupplies, borrowed \in IndexBorrowed,
          rate \in CumulativeBorrowRates, lend \in MiningIndexValues,
          borrow \in MiningIndexValues :
          pools = [p \in PoolIds |->
                     IF p = "p1"
                     THEN [Pool_new(0, ReserveLiquidity_new(1, 3 * WAD), ReserveCollateral_new,
                                    [deposit_paused |-> FALSE], Lottery_new(3, 0))
                             EXCEPT !.collateral.mint_total_supply = supply,
                                    !.liquidity.borrowed_amount_wads = borrowed,
                                    !.liquidity.cumulative_borrow_rate_wads = rate,
                                    !.lottery.l_token_mining_index = lend,
                                    !.lottery.borrow_mining_index = borrow]
                     ELSE Pool_default]
    /\ ticket = Ticket_default
    /\ mining = Mining_default
    /\ manager = PoolManager_default
    /\ pc = "idle"
    /\ ops = 0
    /\ owed = NoneOwed
    /\ hist = NoHist

NextIndexValues ==
    \/ CallRefreshIndex
    \/ CallUpdateSlot

SpecIndexValues == InitIndexValues /\ [][NextIndexValues]_vars

\* ------------------------------------------------------------------------
\* The operations of state/ticket.rs and state/mining.rs called on a Ticket
\* and a Mining in memory, with the pool record they are given.  A failed call
\* leaves the caller with the record it had.
\* ------------------------------------------------------------------------
\* Values of a pool's l_token_mining_index
PoolIndexes == {0, 5, 2000000}
PositionAmounts == {500, U64_MAX}

\* The pool record an accrual is given: a pool whose index is idx
PoolWithIndex(idx) ==
    [Pool_new(0, ReserveLiquidity_new(1, 3 * WAD), ReserveCollateral_new,
              [deposit_paused |-> FALSE], Lottery_new(3, 0))
        EXCEPT !.lottery.l_token_mining_index = idx]

InitPosition ==
    /\ clock = 0
    /\ pools = [p \in PoolIds |-> Pool_default]
    /\ ticket = Ticket_init(Ticket_default, 0, <<>>)
    /\ mining = Mining_init(Mining_default, <<>>)
    /\ ops = 0
    /\ manager = PoolManager_default
    /\ pc = "idle"
    /\ owed = NoneOwed
    /\ hist = NoHist

\* find_or_add_collateral_to_deposits, then deposit into the entry
CallTicketDeposit(p) ==
    \E idx \in PoolIndexes, amount \in PositionAmounts :
        LET f == find_or_add_collateral_to_deposits(ticket, p, idx)
            d == Ticket_deposit(f.self, f.res.v, amount)
        IN /\ ops < MaxOps
           /\ f.res.ok
           /\ ticket' = IF d.res.ok THEN d.self ELSE ticket
           /\ ops' = ops + 1
           /\ hist' = Hist("Ticket_deposit", p, amount, idx, d.res)
           /\ UNCHANGED <<owed, manager, pc, clock, pools, mining>>

CallRefreshDepositUnclaimed ==
    \E i \in 1..Len(ticket.deposits), idx \in PoolIndexes :
        LET out == refresh_deposit_unclaimed(ticket, i, PoolWithIndex(idx))
        IN /\ out.self # ticket => ops < MaxOps
           /\ ticket' = out.self
           /\ ops' = IF out.self # ticket THEN ops + 1 ELSE ops
           /\ hist' = Hist("refresh_deposit_unclaimed", "-", i, idx, out.res)
           /\ UNCHANGED <<owed, manager, pc, clock, pools, mining>>

\* find_or_add_reserve_in_vec, then deposit into the entry
CallMiningDeposit(p) ==
    \E idx \in PoolIndexes, amount \in PositionAmounts :
        LET f == find_or_add_reserve_in_vec(mining, p, idx)
            d == Mining_deposit(f.self, f.res.v, amount)
        IN /\ ops < MaxOps
           /\ f.res.ok
           /\ mining' = IF d.res.ok THEN d.self ELSE mining
           /\ ops' = ops + 1
           /\ hist' = Hist("Mining_deposit", p, amount, idx, d.res)
           /\ UNCHANGED <<owed, manager, pc, clock, pools, ticket>>

CallRefreshUnclaimed ==
    \E i \in 1..Len(mining.mining_indices), idx \in PoolIndexes :
        LET out == refresh_unclaimed(mining, i, PoolWithIndex(idx))
        IN /\ out.self # mining => ops < MaxOps
           /\ mining' = out.self
           /\ ops' = IF out.self # mining THEN ops + 1 ELSE ops
           /\ hist' = Hist("refresh_unclaimed", "-", i, idx, out.res)
           /\ UNCHANGED <<owed, manager, pc, clock, pools, ticket>>

NextPosition ==
    \/ \E p \in PoolIds : CallTicketDeposit(p)
    \/ CallRefreshDepositUnclaimed
    \/ \E p \in PoolIds : CallMiningDeposit(p)
    \/ CallRefreshUnclaimed

SpecPosition == InitPosition /\ [][NextPosition]_vars

\* ------------------------------------------------------------------------
\* The list operations of state/ticket.rs and state/mining.rs, one call at a
\* time, on lists the operations themselves built from the empty list:
\* FilledTicket(n) and FilledMining(n) add n pools and deposit into each.
\* ------------------------------------------------------------------------
ListPoolSeq == <<"p1", "p2", "p3", "p4", "p5", "p6", "p7", "p8", "p9", "p10", "p11">>
ListPools == {ListPoolSeq[k] : k \in 1..Len(ListPoolSeq)}
FilledLengths == {0, 1, MAX_OBLIGATION_RESERVES - 1, MAX_OBLIGATION_RESERVES}
ListIndexes == {0, 5}
ListDeposits == {2}
ListWithdrawals == {1, 2, 3}
MaxListOps == 2

RECURSIVE FilledTicket(_)
FilledTicket(n) ==
    IF n = 0 THEN Ticket_init(Ticket_default, 0, <<>>)
    ELSE LET f == find_or_add_collateral_to_deposits(FilledTicket(n - 1), ListPoolSeq[n], 5)
         IN Ticket_deposit(f.self, f.res.v, 2).self

RECURSIVE FilledMining(_)
FilledMining(n) ==
    IF n = 0 THEN Mining_init(Mining_default, <<>>)
    ELSE LET f == find_or_add_reserve_in_vec(FilledMining(n - 1), ListPoolSeq[n], 5)
         IN Mining_deposit(f.self, f.res.v, 2).self

InitList ==
    /\ clock = 0
    /\ pools = [p \in PoolIds |-> Pool_default]
    /\ \E n \in FilledLengths :
          /\ ticket = FilledTicket(n)
          /\ mining = FilledMining(n)
    /\ ops = 0
    /\ manager = PoolManager_default
    /\ pc = "idle"
    /\ owed = NoneOwed
    /\ hist = NoHist

\* A call on the Ticket: the caller keeps the record the call left
OnTicket(op, pool, a, b, out) ==
    /\ ops < MaxListOps
    /\ ticket' = out.self
    /\ ops' = ops + 1
    /\ hist' = Hist(op, pool, a, b, out.res)
    /\ UNCHANGED <<owed, manager, pc, clock, pools, mining>>

\* A call on the Mining
OnMining(op, pool, a, b, out) ==
    /\ ops < MaxListOps
    /\ mining' = out.self
    /\ ops' = ops + 1
    /\ hist' = Hist(op, pool, a, b, out.res)
    /\ UNCHANGED <<owed, manager, pc, clock, pools, ticket>>

CallFindOrAddCollateral ==
    \E p \in ListPools, idx \in ListIndexes :
        OnTicket("find_or_add_collateral_to_deposits", p, 0, idx,
                 find_or_add_collateral_to_deposits(ticket, p, idx))

CallTicketDepositAt ==
    \E i \in 1..Len(ticket.deposits), amount \in ListDeposits :
        OnTicket("Ticket_deposit_at", "-", amount, i, Ticket_deposit(ticket, i, amount))

CallTicketWithdraw ==
    \E i \in 1..Len(ticket.deposits), amount \in ListWithdrawals :
        OnTicket("Ticket_withdraw", "-", amount, i, Ticket_withdraw(ticket, amount, i))

CallFindOrAddReserve ==
    \E p \in ListPools, idx \in ListIndexes :
        OnMining("find_or_add_reserve_in_vec", p, 0, idx,
                 find_or_add_reserve_in_vec(mining, p, idx))

CallMiningDepositAt ==
    \E i \in 1..Len(mining.mining_indices), amount \in ListDeposits :
        OnMining("Mining_deposit_at", "-", amount, i, Mining_deposit(mining, i, amount))

CallMiningWithdraw ==
    \E i \in 1..Len(mining.mining_indices), amount \in ListWithdrawals :
        OnMining("Mining_withdraw", "-", amount, i, Mining_withdraw(mining, i, amount))

NextList ==
    \/ CallFindOrAddCollateral
    \/ CallTicketDepositAt
    \/ CallTicketWithdraw
    \/ CallFindOrAddReserve
    \/ CallMiningDepositAt
    \/ CallMiningWithdraw

SpecList == InitList /\ [][NextList]_vars

\* ------------------------------------------------------------------------
\* One pool's index rising while a Ticket and a Mining deposit into, withdraw
\* from and accrue on their entry for the pool.  owed adds up, at every
\* rise of the index, the rise times the balance the entry holds.
\* ------------------------------------------------------------------------
AccrualIndexes == {0, 5, 10}
IndexSteps == {5}
AccrualDeposits == {500}
AccrualWithdrawals == {200, 500}

\* The balance of the entry for pool p, 0 when there is none
TicketBalance(t, p) ==
    LET i == find_collateral_index_in_deposits(t, p)
    IN IF i = 0 THEN 0 ELSE t.deposits[i].deposited_amount

MiningBalance(m, p) ==
    LET i == find_index_in_mining_indices(m, p)
    IN IF i = 0 THEN 0 ELSE m.mining_indices[i].un_coll_l_token_amount

InitAccrual ==
    /\ clock = 0
    /\ pools = [p \in PoolIds |-> PoolWithIndex(0)]
    /\ ticket = Ticket_init(Ticket_default, 0, <<>>)
    /\ mining = Mining_init(Mining_default, <<>>)
    /\ ops = 0
    /\ manager = PoolManager_default
    /\ pc = "idle"
    /\ owed = NoneOwed
    /\ hist = NoHist

\* refresh_index raises the pool's l_token_mining_index
RaiseIndex ==
    \E step \in IndexSteps :
        LET idx == pools["p1"].lottery.l_token_mining_index + step IN
        /\ idx \in AccrualIndexes
        /\ pools' = [pools EXCEPT !["p1"].lottery.l_token_mining_index = idx]
        /\ owed' = [ticket |-> owed.ticket + step * TicketBalance(ticket, "p1"),
                    mining |-> owed.mining + step * MiningBalance(mining, "p1")]
        /\ hist' = Hist("RaiseIndex", "p1", step, idx, Ok(0))
        /\ UNCHANGED <<manager, pc, clock, ticket, mining, ops>>

\* A call that changes the Ticket's entry
TicketEntryCall(op, a, out) ==
    /\ ops < MaxOps
    /\ ticket' = IF out.res.ok THEN out.self ELSE ticket
    /\ ops' = ops + 1
    /\ hist' = Hist(op, "p1", a, pools["p1"].lottery.l_token_mining_index, out.res)
    /\ UNCHANGED <<owed, manager, pc, clock, pools, mining>>

\* A call that changes the Mining's entry
MiningEntryCall(op, a, out) ==
    /\ ops < MaxOps
    /\ mining' = IF out.res.ok THEN out.self ELSE mining
    /\ ops' = ops + 1
    /\ hist' = Hist(op, "p1", a, pools["p1"].lottery.l_token_mining_index, out.res)
    /\ UNCHANGED <<owed, manager, pc, clock, pools, ticket>>

EntryDeposit ==
    \E amount \in AccrualDeposits :
        LET f == find_or_add_collateral_to_deposits(
                     ticket, "p1", pools["p1"].lottery.l_token_mining_index)
        IN /\ f.res.ok
           /\ TicketEntryCall("Ticket_deposit", amount,
                              Ticket_deposit(f.self, f.res.v, amount))

EntryWithdraw ==
    \E amount \in AccrualWithdrawals :
        LET i == find_collateral_index_in_deposits(ticket, "p1")
        IN /\ i # 0
           /\ TicketEntryCall("Ticket_withdraw", amount, Ticket_withdraw(ticket, amount, i))

EntryRefresh ==
    LET i == find_collateral_index_in_deposits(ticket, "p1")
    IN /\ i # 0
       /\ LET out == refresh_deposit_unclaimed(ticket, i, pools["p1"])
          IN /\ ticket' = IF out.res.ok THEN out.self ELSE ticket
             /\ hist' = Hist("refresh_deposit_unclaimed", "p1", i,
                             pools["p1"].lottery.l_token_mining_index, out.res)
       /\ UNCHANGED <<owed, manager, pc, clock, pools, mining, ops>>

MiningEntryDeposit ==
    \E amount \in AccrualDeposits :
        LET f == find_or_add_reserve_in_vec(
                     mining, "p1", pools["p1"].lottery.l_token_mining_index)
        IN /\ f.res.ok
           /\ MiningEntryCall("Mining_deposit", amount,
                              Mining_deposit(f.self, f.res.v, amount))

MiningEntryWithdraw ==
    \E amount \in AccrualWithdrawals :
        LET i == find_index_in_mining_indices(mining, "p1")
        IN /\ i # 0
           /\ MiningEntryCall("Mining_withdraw", amount, Mining_withdraw(mining, i, amount))

MiningEntryRefresh ==
    LET i == find_index_in_mining_indices(mining, "p1")
    IN /\ i # 0
       /\ LET out == refresh_unclaimed(mining, i, pools["p1"])
          IN /\ mining' = IF out.res.ok THEN out.self ELSE mining
             /\ hist' = Hist("refresh_unclaimed", "p1", i,
                             pools["p1"].lottery.l_token_mining_index, out.res)
       /\ UNCHANGED <<owed, manager, pc, clock, pools, ticket, ops>>

NextAccrual ==
    \/ RaiseIndex
    \/ EntryDeposit
    \/ EntryWithdraw
    \/ EntryRefresh
    \/ MiningEntryDeposit
    \/ MiningEntryWithdraw
    \/ MiningEntryRefresh

SpecAccrual == InitAccrual /\ [][NextAccrual]_vars

\* ------------------------------------------------------------------------
\* RefreshPool and the accrual of a Ticket's and a Mining's entry repeated,
\* within a slot and across slots, on a pool with claim tokens and a loan.
\* ------------------------------------------------------------------------
RepeatBorrowed == {Decimal_zero, WAD + HALF_WAD}

\* The mining after a deposit of amount into its entry for pool, added at index 0
MiningWith(pool, amount) ==
    LET f == find_or_add_reserve_in_vec(Mining_init(Mining_default, <<>>), pool, Decimal_zero)
    IN Mining_deposit(f.self, f.res.v, amount).self

InitRepeat ==
    /\ clock = 0
    /\ \E c \in ValuedCounters, borrowed \in RepeatBorrowed :
          pools = [p \in PoolIds |->
                     [ValuedPool(c[1], c[2]) EXCEPT !.liquidity.borrowed_amount_wads = borrowed]]
    /\ ticket = ValuedTicket(<<<<"p1", 7>>>>)
    /\ mining = MiningWith("p1", 7)
    /\ ops = 0
    /\ manager = PoolManager_default
    /\ pc = "idle"
    /\ owed = NoneOwed
    /\ hist = NoHist

NextRepeat ==
    \/ Tick
    \/ RefreshPoolWith("p1", TicketOraclePrices)
    \/ EntryDeposit
    \/ EntryRefresh
    \/ MiningEntryDeposit
    \/ MiningEntryRefresh

SpecRepeat == InitRepeat /\ [][NextRepeat]_vars

\* ------------------------------------------------------------------------
\* Pack::pack then Pack::unpack_unchecked on the four records.  The records
\* are drawn from small sets of valid ones: version PROGRAM_VERSION, lists of
\* 0, 1, 2 and 10 entries for different pools, Decimal fields up to values
\* that accruals reach.
\* ------------------------------------------------------------------------
ListLengths == {0, 1, 2, MAX_OBLIGATION_RESERVES}
CodecDecimals == {Decimal_zero, 25 * WAD, U128_MAX, 2000000 * 500}
CodecSlots == {0, 70000}

\* The account's data before the record is packed: zeros, or old bytes
Buffers(len) == {[i \in 1..len |-> 0], [i \in 1..len |-> 255]}

TicketOf(n, d, b, slot) ==
    [Ticket_init(Ticket_default, slot,
                 [i \in 1..n |-> [index |-> 5 * i,
                                  deposit_reserve |-> PubkeyNames[i + 1],
                                  deposited_amount |-> 500 + i,
                                  market_value |-> 3 * WAD * i]])
       EXCEPT !.last_update.stale = b,
              !.deposited_value = 3 * WAD * ((n * (n + 1)) \div 2),
              !.unclaimed_mine = d]

MiningOf(n, d) ==
    [Mining_init(Mining_default,
                 [i \in 1..n |-> [reserve |-> PubkeyNames[i + 1],
                                  index |-> 5 * i,
                                  un_coll_l_token_amount |-> U64_MAX - i]])
       EXCEPT !.unclaimed_mine = d]

PoolOf(d, b, slot) ==
    [Pool_new(slot, ReserveLiquidity_new(6, 25 * WAD), ReserveCollateral_new,
              [deposit_paused |-> b], Lottery_new(U64_MAX, 8000))
       EXCEPT !.last_update.stale = ~b,
              !.liquidity.available_amount = 1700,
              !.collateral.mint_total_supply = 1500,
              !.lottery.l_token_mining_index = d]

PoolManagerOf(b) ==
    PoolManager_init(PoolManager_default,
                     [bump_seed |-> IF b THEN 255 ELSE 254,
                      owner |-> "owner",
                      quote_currency |-> "quote",
                      token_program_id |-> "token_program",
                      oracle_program_id |-> "oracle_program",
                      mine_mint |-> "mine_mint",
                      mine_supply_account |-> "mine_supply"])

InitCodec ==
    /\ clock = 0
    /\ \E n \in ListLengths, d \in CodecDecimals, b \in BOOLEAN, slot \in CodecSlots :
          /\ pools = [p \in PoolIds |-> PoolOf(d, b, slot)]
          /\ ticket = TicketOf(n, d, b, slot)
          /\ mining = MiningOf(n, d)
          /\ manager = PoolManagerOf(b)
    /\ ops = 0
    /\ pc = "idle"
    /\ owed = NoneOwed
    /\ hist = NoHist

\* pack into the account, then unpack the account: hist.a is the length of
\* the encoding, hist.res what unpack returns
RoundTrip(op, packed, unpacked) ==
    /\ hist' = Hist(op, "-", IF packed.ok THEN Len(packed.v) ELSE 0, 0,
                    IF packed.ok THEN unpacked ELSE packed)
    /\ UNCHANGED <<owed, clock, pools, ticket, mining, manager, pc, ops>>

PackPoolManager ==
    \E output \in Buffers(POOL_MANAGER_LEN) :
        LET packed == PoolManager_pack_into_slice(manager, output)
        IN RoundTrip("PoolManager_pack", packed, PoolManager_unpack_from_slice(packed.v))

PackPool ==
    \E output \in Buffers(RESERVE_LEN), oversize \in OversizeOutcomes :
        LET packed == Pool_pack_into_slice(PoolAccount(pools["p1"]), output, oversize)
        IN RoundTrip("Pool_pack", packed, Pool_unpack_from_slice(packed.v))

PackTicket ==
    \E output \in Buffers(OBLIGATION_LEN), oversize \in OversizeOutcomes :
        LET packed == Ticket_pack_into_slice(TicketAccount(ticket), output, oversize)
        IN RoundTrip("Ticket_pack", packed, Ticket_unpack_from_slice(packed.v))

PackMining ==
    \E output \in Buffers(MINING_LEN), oversize \in OversizeOutcomes :
        LET packed == Mining_pack_into_slice(MiningAccount(mining), output, oversize)
        IN RoundTrip("Mining_pack", packed, Mining_unpack_from_slice(packed.v))

NextCodec ==
    \/ PackPoolManager
    \/ PackPool
    \/ PackTicket
    \/ PackMining

SpecCodec == InitCodec /\ [][NextCodec]_vars

\* ------------------------------------------------------------------------
\* Pack::unpack_unchecked on account data: the encoding of a record with one
\* of its bytes overwritten, whole or cut short by a byte.  unpack_unchecked
\* returns InvalidAccountData for data that is not LEN bytes long and calls
\* unpack_from_slice otherwise.
\* ------------------------------------------------------------------------
\* Offsets (from 1) of the bytes that are overwritten
VersionOffset == 1
StaleOffset == 10
DepositsLenOffset == 91
ReservesLenOffset == 66
CorruptBytes == {0, 1, 2, 11, 255}

\* The account data: bytes with the byte at offset set to value, the last
\* byte dropped when short
Corrupted(bytes, offset, value, short) ==
    LET data == [bytes EXCEPT ![offset] = value]
    IN IF short THEN SubSeq(data, 1, Len(data) - 1) ELSE data

\* unpack_unchecked was given data and returned res
Unpacked(op, data, res) ==
    /\ hist' = Hist(op, "-", data, 0, res)
    /\ UNCHANGED <<owed, clock, pools, ticket, mining, manager, pc, ops>>

\* The records whose encodings are overwritten: lists of 0, 2 and 10 entries
DecodeLengths == {0, 2, MAX_OBLIGATION_RESERVES}

InitDecode ==
    /\ clock = 0
    /\ \E n \in DecodeLengths, b \in BOOLEAN :
          /\ pools = [p \in PoolIds |-> PoolOf(25 * WAD, b, 70000)]
          /\ ticket = TicketOf(n, 25 * WAD, b, 70000)
          /\ mining = MiningOf(n, 25 * WAD)
          /\ manager = PoolManagerOf(b)
    /\ ops = 0
    /\ pc = "idle"
    /\ owed = NoneOwed
    /\ hist = NoHist

UnpackPoolManager ==
    \E value \in CorruptBytes, short \in BOOLEAN :
        LET zeros == [i \in 1..POOL_MANAGER_LEN |-> 0]
            data == Corrupted(PoolManager_pack_into_slice(manager, zeros).v,
                              VersionOffset, value, short)
        IN Unpacked("PoolManager_unpack", data,
                    IF Len(data) # POOL_MANAGER_LEN THEN Err("InvalidAccountData")
                    ELSE PoolManager_unpack_from_slice(data))

UnpackPool ==
    \E offset \in {VersionOffset, StaleOffset}, value \in CorruptBytes, short \in BOOLEAN :
        LET zeros == [i \in 1..RESERVE_LEN |-> 0]
            data == Corrupted(Pool_pack_into_slice(PoolAccount(pools["p1"]), zeros,
                                                   "truncate").v,
                              offset, value, short)
        IN Unpacked("Pool_unpack", data,
                    IF Len(data) # RESERVE_LEN THEN Err("InvalidAccountData")
                    ELSE Pool_unpack_from_slice(data))

UnpackTicket ==
    \E offset \in {VersionOffset, StaleOffset, DepositsLenOffset} :
      \E value \in CorruptBytes, short \in BOOLEAN :
        LET zeros == [i \in 1..OBLIGATION_LEN |-> 0]
            data == Corrupted(Ticket_pack_into_slice(TicketAccount(ticket), zeros,
                                                     "truncate").v,
                              offset, value, short)
        IN Unpacked("Ticket_unpack", data,
                    IF Len(data) # OBLIGATION_LEN THEN Err("InvalidAccountData")
                    ELSE Ticket_unpack_from_slice(data))

UnpackMining ==
    \E offset \in {VersionOffset, ReservesLenOffset} :
      \E value \in CorruptBytes, short \in BOOLEAN :
        LET zeros == [i \in 1..MINING_LEN |-> 0]
            data == Corrupted(Mining_pack_into_slice(MiningAccount(mining), zeros,
                                                     "truncate").v,
                              offset, value, short)
        IN Unpacked("Mining_unpack", data,
                    IF Len(data) # MINING_LEN THEN Err("InvalidAccountData")
                    ELSE Mining_unpack_from_slice(data))

NextDecode ==
    \/ UnpackPoolManager
    \/ UnpackPool
    \/ UnpackTicket
    \/ UnpackMining

SpecDecode == InitDecode /\ [][NextDecode]_vars

\* ------------------------------------------------------------------------
\* Properties of the pool operations (SpecPool)
\* ------------------------------------------------------------------------
\* The record of p1 before and after the last operation
Before == hist.pools["p1"]
After == pools["p1"]

NoBorrowsNoFees(pool) ==
    /\ pool.liquidity.borrowed_amount_wads = Decimal_zero
    /\ pool.liquidity.owner_unclaimed = Decimal_zero

\* C1: after every successful refresh_index (slots do not go back: an earlier
\* slot fails), deposit_liquidity and redeem_collateral, l_token_mining_index
\* and borrow_mining_index are each at least their value before the operation.
C1_IndexesNeverDecrease ==
    (hist.op \in {"refresh_index", "deposit_liquidity", "redeem_collateral"} /\ hist.res.ok)
    => /\ After.lottery.l_token_mining_index >= Before.lottery.l_token_mining_index
       /\ After.lottery.borrow_mining_index >= Before.lottery.borrow_mining_index

\* A refresh_index that advanced both indexes
C1_BothIndexesAdvanced ==
    /\ hist.op = "refresh_index"
    /\ hist.res.ok
    /\ After.lottery.l_token_mining_index > Before.lottery.l_token_mining_index
    /\ After.lottery.borrow_mining_index > Before.lottery.borrow_mining_index

\* C2: a successful refresh_index(slot) on a pool with mint_total_supply > 0
\* raises l_token_mining_index by exactly
\* total_mining_speed * (slot - last_update.slot) * 0.5 / mint_total_supply.
C2_IncrementIsHalfTheSpeed ==
    (hist.op = "refresh_index" /\ hist.res.ok /\ Before.collateral.mint_total_supply > 0)
    => After.lottery.l_token_mining_index - Before.lottery.l_token_mining_index
         = ((Decimal_from(Before.lottery.total_mining_speed)
               * (hist.a - Before.last_update.slot) * HALF_WAD) \div WAD)
             \div Before.collateral.mint_total_supply

C8_ExchangeRateBootstrap ==
    LET S == After.collateral.mint_total_supply
        all == After.liquidity.available_amount * WAD + After.liquidity.borrowed_amount_wads
        T == IF all < After.liquidity.owner_unclaimed THEN 0
             ELSE all - After.liquidity.owner_unclaimed
        rate == collateral_exchange_rate(After)
    IN /\ rate.ok =>
            IF S = 0 \/ T = 0 THEN rate.v = INITIAL_COLLATERAL_RATE
            ELSE /\ rate.v * T <= S * WAD * WAD
                 /\ S * WAD * WAD < (rate.v + 1) * T
       /\ (/\ hist.op = "deposit_liquidity"
           /\ hist.res.ok
           /\ Before.collateral.mint_total_supply = 0
           /\ Before.liquidity.available_amount = 0
           /\ Before.liquidity.borrowed_amount_wads = 0)
          => hist.res.v = hist.a * INITIAL_COLLATERAL_RATIO

\* A first deposit into an empty pool
C8_FirstDeposit ==
    /\ hist.op = "deposit_liquidity"
    /\ hist.res.ok
    /\ hist.a > 0
    /\ Before.collateral.mint_total_supply = 0
    /\ Before.liquidity.available_amount = 0
    /\ Before.liquidity.borrowed_amount_wads = 0
    /\ After.collateral.mint_total_supply = hist.a

\* C9: deposit_liquidity(amount) fails with MathOverflow when
\* available_amount + amount or mint_total_supply + minted exceeds the 64-bit
\* maximum; neither counter ever leaves 0..u64::MAX, and after a successful
\* deposit both are the sums.
C9_DepositOverflowFails ==
    /\ After.liquidity.available_amount \in 0..U64_MAX
    /\ After.collateral.mint_total_supply \in 0..U64_MAX
    /\ hist.op = "deposit_liquidity" =>
         LET minted == AndThen(collateral_exchange_rate(Before),
                               LAMBDA rate: liquidity_to_collateral(rate, hist.a))
         IN /\ Before.liquidity.available_amount + hist.a > U64_MAX
                  => hist.res = MathOverflow
            /\ (minted.ok /\ Before.collateral.mint_total_supply + minted.v > U64_MAX)
                  => hist.res = MathOverflow
            /\ hist.res.ok =>
                  /\ After.liquidity.available_amount
                       = Before.liquidity.available_amount + hist.a
                  /\ After.collateral.mint_total_supply
                       = Before.collateral.mint_total_supply + hist.res.v

\* A deposit that would carry available_amount past u64::MAX
C9_DepositOverflowed ==
    /\ hist.op = "deposit_liquidity"
    /\ hist.res = MathOverflow
    /\ Before.liquidity.available_amount > 0
    /\ Before.liquidity.available_amount + hist.a > U64_MAX

\* ------------------------------------------------------------------------
\* Properties of the instruction handlers (Spec, SpecTicket)
\* ------------------------------------------------------------------------
PoolHandlers == {"RefreshPool", "DepositPoolLiquidity", "RedeemPoolCollateral"}

\* C4: when RefreshPool, DepositPoolLiquidity or RedeemPoolCollateral returns
\* an error, whatever the point of failure (a failed token transfer, mint or
\* burn included), the Pool account holds the record it held before.
C4_FailedHandlerLeavesRecord ==
    (hist.op \in PoolHandlers /\ ~hist.res.ok) => pools = hist.pools

\* A pool is stale for a slot: its flag is set or it was last refreshed earlier
StaleFor(pool, slot) == pool.last_update.stale \/ pool.last_update.slot < slot

\* The guard of a deposit or a redemption that a pool trips
Guarded(op, pool, slot) ==
    \/ StaleFor(pool, slot)
    \/ pool.reentry_lock
    \/ (op = "DepositPoolLiquidity" /\ pool.config.deposit_paused)

\* C5 as stated: DepositPoolLiquidity and RedeemPoolCollateral on a pool that is
\* stale for the slot, locked or (deposit) paused fail with ReserveStale,
\* ReentryLocked or DepositPaused, the error of a guard the pool trips, and
\* leave available_amount and mint_total_supply unchanged.
C5_GuardsFailWithTheirError ==
    (/\ hist.op \in {"DepositPoolLiquidity", "RedeemPoolCollateral"}
     /\ Before.version # UNINITIALIZED_VERSION
     /\ Guarded(hist.op, Before, hist.slot))
    => /\ After.liquidity.available_amount = Before.liquidity.available_amount
       /\ After.collateral.mint_total_supply = Before.collateral.mint_total_supply
       /\ \/ StaleFor(Before, hist.slot) /\ hist.res = Err("ReserveStale")
          \/ Before.reentry_lock /\ hist.res = Err("ReentryLocked")
          \/ /\ hist.op = "DepositPoolLiquidity"
             /\ Before.config.deposit_paused
             /\ hist.res = Err("DepositPaused")

\* The error of a deposit or redemption of `amount` on a pool that trips a guard
GuardError(pool, slot, amount) ==
    IF amount = 0 THEN Err("InvalidAmount")
    ELSE IF StaleFor(pool, slot) THEN Err("ReserveStale")
    ELSE IF pool.reentry_lock THEN Err("ReentryLocked")
    ELSE Err("DepositPaused")

\* C5 amended: on such a pool the handler fails and leaves the whole record
\* unchanged; the error is InvalidAmount for an amount of 0, and otherwise that
\* of the first guard tripped in the order stale, locked, paused.  No
\* operation sets reentry_lock, so the handlers are also applied to the
\* current record with the lock set.
C5_GuardsFailInOrder ==
    /\ (/\ hist.op \in {"DepositPoolLiquidity", "RedeemPoolCollateral"}
        /\ Before.version # UNINITIALIZED_VERSION
        /\ Guarded(hist.op, Before, hist.slot))
       => /\ pools = hist.pools
          /\ hist.res = GuardError(Before, hist.slot, hist.a)
    /\ After.version # UNINITIALIZED_VERSION =>
         LET locked == [After EXCEPT !.reentry_lock = TRUE] IN
         /\ \A in \in DepositInputs, token \in TokenOutcomes :
              process_deposit_pool_liquidity(locked, clock, in[1], in[2], token)
                = Out(GuardError(locked, clock, in[1]), locked)
         /\ \A in \in RedeemInputs, token \in TokenOutcomes :
              process_redeem_pool_collateral(locked, clock, in[1], in[2], token)
                = Out(GuardError(locked, clock, in[1]), locked)

\* A deposit of a positive amount into a pool last refreshed in an earlier slot
C5_StaleDepositRejected ==
    /\ hist.op = "DepositPoolLiquidity"
    /\ hist.a > 0
    /\ ~Before.last_update.stale
    /\ Before.last_update.slot < hist.slot
    /\ hist.res = Err("ReserveStale")

\* C10: a DepositPoolLiquidity whose effective amount is 0 (the amount, or the
\* balance of the source account when the amount is u64::MAX) is rejected and
\* leaves the pool unchanged.
C10_ZeroDepositRejected ==
    (/\ hist.op = "DepositPoolLiquidity"
     /\ (IF hist.a = U64_MAX THEN hist.b ELSE hist.a) = 0)
    => (~hist.res.ok /\ pools = hist.pools)

\* The positions of the ticket's deposits whose pool was not refreshed in slot
StalePositions(t, reserves, slot) ==
    {i \in 1..Len(t.deposits) :
        \/ reserves[t.deposits[i].deposit_reserve].last_update.stale
        \/ reserves[t.deposits[i].deposit_reserve].last_update.slot # slot}

\* The pools of the ticket's deposits, in order
DepositReserves(t) == [i \in 1..Len(t.deposits) |-> t.deposits[i].deposit_reserve]

\* C6 as stated: RefreshTicket, given the pools of the ticket's deposits in
\* order, fails with ReserveStale and leaves the Ticket unchanged whenever a
\* pool of the ticket was not refreshed in the slot, at whatever position.
C6_StalePoolFailsWithReserveStale ==
    (/\ hist.op = "RefreshTicket"
     /\ hist.ticket.version # UNINITIALIZED_VERSION
     /\ hist.a = DepositReserves(hist.ticket)
     /\ StalePositions(hist.ticket, hist.pools, hist.slot) # {})
    => (hist.res = Err("ReserveStale") /\ ticket = hist.ticket)

\* C6 amended: whenever a pool of the ticket was not refreshed in the slot,
\* RefreshTicket fails and leaves the Ticket unchanged, whatever accounts it is
\* given; the error is ReserveStale when the accounts up to the first such pool
\* are the ticket's pools in order and the entries before it refresh without
\* error.
C6_StalePoolFailsRefresh ==
    (/\ hist.op = "RefreshTicket"
     /\ hist.ticket.version # UNINITIALIZED_VERSION
     /\ StalePositions(hist.ticket, hist.pools, hist.slot) # {})
    => /\ ~hist.res.ok
       /\ ticket = hist.ticket
       /\ LET k == CHOOSE i \in StalePositions(hist.ticket, hist.pools, hist.slot) :
                     \A j \in StalePositions(hist.ticket, hist.pools, hist.slot) : i <= j
              earlier == [hist.ticket EXCEPT !.deposits = SubSeq(@, 1, k - 1)]
          IN (/\ Len(hist.a) >= k
              /\ SubSeq(hist.a, 1, k) = SubSeq(DepositReserves(hist.ticket), 1, k)
              /\ process_refresh_ticket(earlier, hist.slot, SubSeq(hist.a, 1, k - 1),
                                        hist.pools).res.ok)
             => hist.res = Err("ReserveStale")

\* A refresh that priced the first entry and met the stale pool at the second
C6_StaleSecondPool ==
    /\ hist.op = "RefreshTicket"
    /\ Len(hist.ticket.deposits) = 2
    /\ hist.a = DepositReserves(hist.ticket)
    /\ StalePositions(hist.ticket, hist.pools, hist.slot) = {2}
    /\ hist.res = Err("ReserveStale")

\* ------------------------------------------------------------------------
\* Properties of the accrual (SpecPosition)
\* ------------------------------------------------------------------------
\* C7: a successful Ticket.refresh_deposit_unclaimed(i, pool) or
\* Mining.refresh_unclaimed(i, pool) adds (pool index - entry index) * entry
\* balance to unclaimed_mine and sets the entry's index to the pool's; with the
\* pool index below the entry's the call fails, and a failed call leaves the
\* record as it was.
C7_AccrualIsIndexDeltaTimesBalance ==
    /\ hist.op = "refresh_deposit_unclaimed" =>
         LET entry == hist.ticket.deposits[hist.a] IN
         /\ hist.b < entry.index => ~hist.res.ok
         /\ ~hist.res.ok => ticket = hist.ticket
         /\ hist.res.ok =>
              /\ ticket.unclaimed_mine
                   = hist.ticket.unclaimed_mine
                       + (hist.b - entry.index) * entry.deposited_amount
              /\ ticket.deposits[hist.a].index = hist.b
              /\ ticket.deposits[hist.a].deposited_amount = entry.deposited_amount
    /\ hist.op = "refresh_unclaimed" =>
         LET entry == hist.mining.mining_indices[hist.a] IN
         /\ hist.b < entry.index => ~hist.res.ok
         /\ ~hist.res.ok => mining = hist.mining
         /\ hist.res.ok =>
              /\ mining.unclaimed_mine
                   = hist.mining.unclaimed_mine
                       + (hist.b - entry.index) * entry.un_coll_l_token_amount
              /\ mining.mining_indices[hist.a].index = hist.b
              /\ mining.mining_indices[hist.a].un_coll_l_token_amount
                   = entry.un_coll_l_token_amount

\* Balance 500, entry index 0, pool index 0.05: 25 is added
C7_AccruedOnTicket ==
    /\ hist.op = "refresh_deposit_unclaimed"
    /\ hist.res.ok
    /\ hist.ticket.deposits[hist.a].deposited_amount = 500
    /\ hist.ticket.deposits[hist.a].index = 0
    /\ hist.b = 5
    /\ ticket.unclaimed_mine = hist.ticket.unclaimed_mine + 25 * WAD

\* ------------------------------------------------------------------------
\* Properties of redeem_collateral on any pool value (SpecPoolValues)
\* ------------------------------------------------------------------------
\* The liquidity redeem_collateral computes for the claim tokens of the last call
RedeemedLiquidity ==
    AndThen(collateral_exchange_rate(Before),
            LAMBDA rate: collateral_to_liquidity(rate, hist.a))

\* available_amount less owner_unclaimed rounded up; 0 when owner_unclaimed
\* is above available_amount
WithdrawLimit(liq) ==
    IF Decimal_from(liq.available_amount) < liq.owner_unclaimed THEN 0
    ELSE liq.available_amount - (liq.owner_unclaimed + WAD - 1) \div WAD

CoversOwnerShare(liq) == Decimal_from(liq.available_amount) >= liq.owner_unclaimed

\* C11 as stated: a successful redeem_collateral keeps available_amount at or
\* above owner_unclaimed, and a redeem whose computed liquidity exceeds
\* available_amount minus owner_unclaimed (rounded up) fails with
\* InsufficientLiquidity.
C11_RedeemFailsInsufficientLiquidity ==
    hist.op = "redeem_collateral" =>
       /\ (hist.res.ok /\ CoversOwnerShare(Before.liquidity))
             => CoversOwnerShare(After.liquidity)
       /\ (RedeemedLiquidity.ok /\ RedeemedLiquidity.v > WithdrawLimit(Before.liquidity))
             => hist.res = Err("InsufficientLiquidity")

\* C11 amended: a successful redeem_collateral keeps available_amount at or
\* above owner_unclaimed; a redeem whose computed liquidity exceeds
\* available_amount minus owner_unclaimed (rounded up) fails and leaves
\* available_amount as it was: with MathOverflow when it burns more claim
\* tokens than mint_total_supply, with InsufficientLiquidity otherwise.
C11_RedeemKeepsOwnerShare ==
    hist.op = "redeem_collateral" =>
       /\ (hist.res.ok /\ CoversOwnerShare(Before.liquidity))
             => CoversOwnerShare(After.liquidity)
       /\ (RedeemedLiquidity.ok /\ RedeemedLiquidity.v > WithdrawLimit(Before.liquidity))
             => /\ hist.res = IF hist.a > Before.collateral.mint_total_supply
                               THEN MathOverflow
                               ELSE Err("InsufficientLiquidity")
                /\ After.liquidity.available_amount = Before.liquidity.available_amount

\* A redeem refused because it would take liquidity owed to the owner
C11_RedeemRefused ==
    /\ hist.op = "redeem_collateral"
    /\ hist.res = Err("InsufficientLiquidity")
    /\ Before.liquidity.owner_unclaimed > Decimal_zero
    /\ CoversOwnerShare(Before.liquidity)
    /\ RedeemedLiquidity.ok
    /\ RedeemedLiquidity.v <= Before.liquidity.available_amount
    /\ RedeemedLiquidity.v > WithdrawLimit(Before.liquidity)

\* ------------------------------------------------------------------------
\* Properties of the record encodings (SpecCodec)
\* ------------------------------------------------------------------------
\* C12: for each record type and every valid record (initialized version, at
\* most 10 list entries), unpacking the packed record yields the record, and
\* the encoding is 354 (PoolManager), 646 (Pool), 827 (Ticket) and 642
\* (Mining) bytes long.
C12_RecordsRoundTrip ==
    /\ hist.op = "PoolManager_pack"
          => (hist.res.ok /\ hist.res.v = manager /\ hist.a = 354)
    /\ hist.op = "Pool_pack"
          => (hist.res.ok /\ hist.res.v = PoolAccount(pools["p1"]) /\ hist.a = 646)
    /\ hist.op = "Ticket_pack"
          => (hist.res.ok /\ hist.res.v = TicketAccount(ticket) /\ hist.a = 827)
    /\ hist.op = "Mining_pack"
          => (hist.res.ok /\ hist.res.v = MiningAccount(mining) /\ hist.a = 642)

\* ------------------------------------------------------------------------
\* Properties of a deposit or redeem in progress (SpecNested)
\* ------------------------------------------------------------------------
\* C13: while a deposit or redeem on a pool is between its checks and the end
\* of its token calls, a nested RefreshPool, DepositPoolLiquidity or
\* RedeemPoolCollateral on the same pool is rejected and does not change the
\* pool's record (the reentry_lock being held for the operation).
C13_NestedCallRejected ==
    (pc # "idle" /\ hist.op \in PoolHandlers)
    => (~hist.res.ok /\ pools["p1"] = hist.pools["p1"])

\* ------------------------------------------------------------------------
\* Properties of refresh_index on any pool value (SpecIndexValues)
\* ------------------------------------------------------------------------
\* C14: when refresh_index returns an error, on the lend side or on the
\* borrow side, every field of the Pool it was called on, the two mining
\* indexes included, has the value it had before the call.
C14_FailedRefreshLeavesPool ==
    (hist.op = "refresh_index" /\ ~hist.res.ok) => hist.b = Before

\* ------------------------------------------------------------------------
\* Properties of the position lists (SpecList)
\* ------------------------------------------------------------------------
\* The pools of the mining's entries, in order
MiningReserves(m) == [i \in 1..Len(m.mining_indices) |-> m.mining_indices[i].reserve]

\* pool is the pool of no entry of the list of pools
Absent(reserves, pool) == \A k \in 1..Len(reserves) : reserves[k] # pool

\* C15: find_or_add_collateral_to_deposits and find_or_add_reserve_in_vec,
\* succeeding for a pool not in the list, append an entry of that pool with
\* balance 0 and the index passed in, so that a deposit into the entry followed
\* by an accrual against a pool at that index adds 0 to unclaimed_mine; for a
\* pool in the list they return its position and change nothing.
C15_FindOrAddSeedsTheIndex ==
    /\ (hist.op = "find_or_add_collateral_to_deposits" /\ hist.res.ok) =>
         LET old == hist.ticket.deposits
             i == hist.res.v IN
         IF Absent(DepositReserves(hist.ticket), hist.pool)
         THEN /\ i = Len(old) + 1
              /\ Len(ticket.deposits) = i
              /\ \A k \in 1..Len(old) : ticket.deposits[k] = old[k]
              /\ ticket.deposits[i].deposit_reserve = hist.pool
              /\ ticket.deposits[i].deposited_amount = 0
              /\ ticket.deposits[i].index = hist.b
              /\ \A amount \in PositionAmounts :
                    LET d == Ticket_deposit(ticket, i, amount)
                        r == refresh_deposit_unclaimed(d.self, i, PoolWithIndex(hist.b))
                    IN /\ d.res.ok
                       /\ r.res.ok
                       /\ r.self.unclaimed_mine = ticket.unclaimed_mine
         ELSE /\ old[i].deposit_reserve = hist.pool
              /\ ticket = hist.ticket
    /\ (hist.op = "find_or_add_reserve_in_vec" /\ hist.res.ok) =>
         LET old == hist.mining.mining_indices
             i == hist.res.v IN
         IF Absent(MiningReserves(hist.mining), hist.pool)
         THEN /\ i = Len(old) + 1
              /\ Len(mining.mining_indices) = i
              /\ \A k \in 1..Len(old) : mining.mining_indices[k] = old[k]
              /\ mining.mining_indices[i].reserve = hist.pool
              /\ mining.mining_indices[i].un_coll_l_token_amount = 0
              /\ mining.mining_indices[i].index = hist.b
              /\ \A amount \in PositionAmounts :
                    LET d == Mining_deposit(mining, i, amount)
                        r == refresh_unclaimed(d.self, i, PoolWithIndex(hist.b))
                    IN /\ d.res.ok
                       /\ r.res.ok
                       /\ r.self.unclaimed_mine = mining.unclaimed_mine
         ELSE /\ old[i].reserve = hist.pool
              /\ mining = hist.mining

\* A pool was added to a ticket that held other pools, at a non-zero index
C15_PoolAdded ==
    /\ hist.op = "find_or_add_collateral_to_deposits"
    /\ hist.res.ok
    /\ hist.b > 0
    /\ Len(hist.ticket.deposits) > 0
    /\ Absent(DepositReserves(hist.ticket), hist.pool)
    /\ Len(ticket.deposits) = Len(hist.ticket.deposits) + 1

\* C16: on a list of 10 entries, find_or_add for a pool not among them fails
\* with ObligationReserveLimit (Ticket) or MiningVolumeLimit (Mining) and
\* leaves the list unchanged; for a pool among the 10 it succeeds.
C16_FullListRejectsNewPool ==
    /\ (/\ hist.op = "find_or_add_collateral_to_deposits"
        /\ Len(hist.ticket.deposits) = 10) =>
         IF Absent(DepositReserves(hist.ticket), hist.pool)
         THEN /\ ~hist.res.ok
              /\ hist.res.err = "ObligationReserveLimit"
              /\ ticket.deposits = hist.ticket.deposits
         ELSE hist.res.ok
    /\ (/\ hist.op = "find_or_add_reserve_in_vec"
        /\ Len(hist.mining.mining_indices) = 10) =>
         IF Absent(MiningReserves(hist.mining), hist.pool)
         THEN /\ ~hist.res.ok
              /\ hist.res.err = "MiningVolumeLimit"
              /\ mining.mining_indices = hist.mining.mining_indices
         ELSE hist.res.ok

\* An eleventh pool was refused on a mining of 10 entries
C16_EleventhPoolRefused ==
    /\ hist.op = "find_or_add_reserve_in_vec"
    /\ Len(hist.mining.mining_indices) = 10
    /\ Absent(MiningReserves(hist.mining), hist.pool)
    /\ ~hist.res.ok

\* No pool occurs twice in the list of pools
NoDuplicates(reserves) ==
    \A j, k \in 1..Len(reserves) : reserves[j] = reserves[k] => j = k

\* C17: from a Ticket or Mining initialized with an empty list, after any
\* sequence of find_or_add, deposit and withdraw the list holds at most 10
\* entries and no two entries are of the same pool.
C17_ListsBoundedAndUnique ==
    /\ Len(ticket.deposits) <= 10
    /\ NoDuplicates(DepositReserves(ticket))
    /\ Len(mining.mining_indices) <= 10
    /\ NoDuplicates(MiningReserves(mining))

\* A ticket of 10 entries took a withdrawal that removed an entry, then a
\* pool again
C17_RefilledAfterWithdrawal ==
    /\ hist.op = "find_or_add_collateral_to_deposits"
    /\ hist.res.ok
    /\ ops = 2
    /\ Len(hist.ticket.deposits) = 9
    /\ Len(ticket.deposits) = 10
    /\ ticket.deposits[1].deposit_reserve # "p1"

\* C18: Ticket.withdraw(amount, i) and Mining.withdraw(i, amount) with amount
\* equal to the entry's balance remove the entry, the other entries keeping
\* their order; with a smaller amount they lower the balance by amount and
\* keep the length; with a larger amount they fail with MathOverflow and leave
\* the list unchanged.
C18_WithdrawRemovesAtZero ==
    /\ hist.op = "Ticket_withdraw" =>
         LET old == hist.ticket.deposits
             i == hist.b
             balance == old[i].deposited_amount IN
         /\ hist.a = balance =>
              /\ hist.res.ok
              /\ Len(ticket.deposits) = Len(old) - 1
              /\ \A k \in 1..(i - 1) : ticket.deposits[k] = old[k]
              /\ \A k \in i..(Len(old) - 1) : ticket.deposits[k] = old[k + 1]
         /\ hist.a < balance =>
              /\ hist.res.ok
              /\ ticket.deposits = [old EXCEPT ![i].deposited_amount = balance - hist.a]
         /\ hist.a > balance =>
              /\ ~hist.res.ok
              /\ hist.res.err = "MathOverflow"
              /\ ticket.deposits = old
    /\ hist.op = "Mining_withdraw" =>
         LET old == hist.mining.mining_indices
             i == hist.b
             balance == old[i].un_coll_l_token_amount IN
         /\ hist.a = balance =>
              /\ hist.res.ok
              /\ Len(mining.mining_indices) = Len(old) - 1
              /\ \A k \in 1..(i - 1) : mining.mining_indices[k] = old[k]
              /\ \A k \in i..(Len(old) - 1) : mining.mining_indices[k] = old[k + 1]
         /\ hist.a < balance =>
              /\ hist.res.ok
              /\ mining.mining_indices
                   = [old EXCEPT ![i].un_coll_l_token_amount = balance - hist.a]
         /\ hist.a > balance =>
              /\ ~hist.res.ok
              /\ hist.res.err = "MathOverflow"
              /\ mining.mining_indices = old

\* An entry in the middle of a mining's list was withdrawn in full
C18_MiddleEntryRemoved ==
    /\ hist.op = "Mining_withdraw"
    /\ hist.res.ok
    /\ hist.b > 1
    /\ hist.b < Len(hist.mining.mining_indices)
    /\ hist.a = hist.mining.mining_indices[hist.b].un_coll_l_token_amount
    /\ Len(mining.mining_indices) = Len(hist.mining.mining_indices) - 1

\* ------------------------------------------------------------------------
\* Properties of RefreshTicket's account list (SpecTicket)
\* ------------------------------------------------------------------------
\* C19: RefreshTicket succeeds only when it is given exactly one pool per
\* deposit entry, in the order of the deposits: with a pool missing, a pool
\* after the last entry's, or a pool other than the entry's at a position, it
\* fails and the persisted Ticket is unchanged.
C19_RefreshTicketNeedsItsPools ==
    (hist.op = "RefreshTicket" /\ hist.a # DepositReserves(hist.ticket))
    => (~hist.res.ok /\ ticket = hist.ticket)

\* A ticket of one deposit, its pool refreshed in the slot, was given a second
\* pool after its own
C19_ExtraPoolRejected ==
    /\ hist.op = "RefreshTicket"
    /\ Len(hist.ticket.deposits) = 1
    /\ Len(hist.a) = 2
    /\ hist.a[1] = hist.ticket.deposits[1].deposit_reserve
    /\ StalePositions(hist.ticket, hist.pools, hist.slot) = {}
    /\ ~hist.res.ok
    /\ hist.res.err = "InvalidAccountInput"
    /\ ticket = hist.ticket

\* ------------------------------------------------------------------------
\* Properties of the init instructions (SpecInit)
\* ------------------------------------------------------------------------
InitHandlers == {"InitPoolManager", "InitPool", "InitTicket"}

\* The record an init instruction was applied to, and the record it left
InitTarget ==
    IF hist.op = "InitPoolManager" THEN hist.manager
    ELSE IF hist.op = "InitPool" THEN hist.pools[hist.pool]
    ELSE hist.ticket

InitLeft ==
    IF hist.op = "InitPoolManager" THEN manager
    ELSE IF hist.op = "InitPool" THEN pools[hist.pool]
    ELSE ticket

\* An init instruction was applied to an initialized record
Reinit == hist.op \in InitHandlers /\ InitTarget.version # UNINITIALIZED_VERSION

\* The checks the handler makes before assert_uninitialized passed
EarlierChecksPass ==
    /\ hist.op = "InitPoolManager" => (hist.a = InitPoolManagerAuthority /\ hist.b)
    /\ hist.op = "InitPool" => get_pyth_price(hist.a, hist.b).ok

\* No step takes the version of an initialized record back to uninitialized
VersionsKept ==
    /\ manager.version # UNINITIALIZED_VERSION => manager'.version = manager.version
    /\ ticket.version # UNINITIALIZED_VERSION => ticket'.version = ticket.version
    /\ \A p \in PoolIds :
          pools[p].version # UNINITIALIZED_VERSION => pools'[p].version = pools[p].version

\* C20 as stated: InitPoolingManager, InitPool or InitTicket applied to an
\* initialized record fails with AlreadyInitialized and leaves the record
\* unchanged, and no step returns an initialized record's version to
\* uninitialized.
C20_ReinitFailsAlreadyInitialized ==
    /\ [](Reinit => (/\ ~hist.res.ok
                     /\ hist.res.err = "AlreadyInitialized"
                     /\ InitLeft = InitTarget))
    /\ [][VersionsKept]_vars

\* C20, amended: InitPoolingManager, InitPool or InitTicket applied to an
\* initialized record fails and leaves the record unchanged, with
\* AlreadyInitialized when the checks the handler makes before
\* assert_uninitialized pass and with the first failing check's error
\* otherwise; no step returns an initialized record's version to
\* uninitialized.
C20_ReinitRejected ==
    /\ [](Reinit => (/\ ~hist.res.ok
                     /\ EarlierChecksPass => hist.res.err = "AlreadyInitialized"
                     /\ InitLeft = InitTarget))
    /\ [][VersionsKept]_vars

\* InitPool with a valid price was refused on a pool that deposits had changed
C20_PoolReinitRefused ==
    /\ hist.op = "InitPool"
    /\ Reinit
    /\ EarlierChecksPass
    /\ hist.pools["p1"].liquidity.available_amount > 0
    /\ hist.res.err = "AlreadyInitialized"
    /\ pools = hist.pools

\* ------------------------------------------------------------------------
\* Properties of decoding account data (SpecDecode)
\* ------------------------------------------------------------------------
UnpackOps == {"PoolManager_unpack", "Pool_unpack", "Ticket_unpack", "Mining_unpack"}

\* C21: for each of the four record types, decoding data whose first byte,
\* the version, is above the supported version returns the error
\* InvalidAccountData and no record; it does not abort.
C21_NewerVersionRejected ==
    (hist.op \in UnpackOps /\ hist.a[1] > PROGRAM_VERSION)
    => (~hist.res.ok /\ hist.res.err = "InvalidAccountData")

\* A Ticket of full length with version byte 255 was refused
C21_TicketVersionRefused ==
    /\ hist.op = "Ticket_unpack"
    /\ Len(hist.a) = OBLIGATION_LEN
    /\ hist.a[1] = 255
    /\ hist.a[DepositsLenOffset] = 2
    /\ hist.res.err = "InvalidAccountData"

\* C22: decoding corrupt data returns a data-format error, never an abort or
\* a record decoded in part; Ticket or Mining data of the right length whose
\* entry-count byte is between 11 and 255 decodes to an error.
C22_CorruptDataIsAnError ==
    /\ hist.op \in UnpackOps => (hist.res.ok \/ hist.res.err = "InvalidAccountData")
    /\ (/\ hist.op = "Ticket_unpack"
        /\ Len(hist.a) = OBLIGATION_LEN
        /\ hist.a[DepositsLenOffset] > MAX_OBLIGATION_RESERVES)
       => (~hist.res.ok /\ hist.res.err = "InvalidAccountData")
    /\ (/\ hist.op = "Mining_unpack"
        /\ Len(hist.a) = MINING_LEN
        /\ hist.a[ReservesLenOffset] > MAX_MINING_VOLUME)
       => (~hist.res.ok /\ hist.res.err = "InvalidAccountData")

\* ------------------------------------------------------------------------
\* Properties of deposit_liquidity and redeem_collateral as guards (SpecPool)
\* ------------------------------------------------------------------------
\* C23: Pool::deposit_liquidity and Pool::redeem_collateral themselves refuse
\* a pool that is stale or has reentry_lock set, and deposit_liquidity a pool
\* with deposit_paused set: the call fails and the pool is not changed.
C23_PoolOperationsRefuseStalePool ==
    (/\ hist.op \in {"deposit_liquidity", "redeem_collateral"}
     /\ \/ Before.last_update.stale
        \/ Before.reentry_lock
        \/ hist.op = "deposit_liquidity" /\ Before.config.deposit_paused)
    => (~hist.res.ok /\ After = Before)

\* ------------------------------------------------------------------------
\* Properties of RefreshPool's oracle price (SpecOracle)
\* ------------------------------------------------------------------------
\* C24: RefreshPool with an oracle price that is zero or negative fails with
\* the oracle error and leaves the pool's market_price, mining indexes and
\* last_update unchanged; after a successful RefreshPool the pool's
\* market_price is above zero.
C24_NonPositivePriceRejected ==
    /\ (hist.op = "RefreshPool" /\ hist.a <= 0) =>
         /\ ~hist.res.ok
         /\ hist.res.err \in {"InvalidOracleConfig", "UninitializedAccount"}
         /\ After.liquidity.market_price = Before.liquidity.market_price
         /\ After.lottery = Before.lottery
         /\ After.last_update = Before.last_update
    /\ (hist.op = "RefreshPool" /\ hist.res.ok) => After.liquidity.market_price > 0

\* ------------------------------------------------------------------------
\* Properties of a redeem beyond the supply (SpecPoolValues)
\* ------------------------------------------------------------------------
\* C25: redeem_collateral(c) with c above mint_total_supply fails, and the
\* Pool it was called on keeps its mint_total_supply and its available_amount.
C25_RedeemBeyondSupplyFails ==
    (hist.op = "redeem_collateral" /\ hist.a > Before.collateral.mint_total_supply)
    => /\ ~hist.res.ok
       /\ hist.b.collateral.mint_total_supply = Before.collateral.mint_total_supply
       /\ hist.b.liquidity.available_amount = Before.liquidity.available_amount

\* The burn refused more claim tokens than a pool with a supply had minted,
\* the liquidity for them having been computed
C25_BurnRefused ==
    /\ hist.op = "redeem_collateral"
    /\ Before.collateral.mint_total_supply > 0
    /\ hist.a > Before.collateral.mint_total_supply
    /\ RedeemedLiquidity.ok
    /\ hist.res = MathOverflow
    /\ hist.b = Before

TicketSettled ==
    LET i == find_collateral_index_in_deposits(ticket, "p1")
    IN i # 0 => ticket.deposits[i].index = pools["p1"].lottery.l_token_mining_index

MiningSettled ==
    LET i == find_index_in_mining_indices(mining, "p1")
    IN i # 0 => mining.mining_indices[i].index = pools["p1"].lottery.l_token_mining_index

\* C27: over any sequence of deposit, withdraw and accrual calls on an entry
\* and rises of the pool's l_token_mining_index, what has been added to
\* unclaimed_mine once the entry is accrued to the pool's index (or withdrawn
\* in full) is the sum over the rises of rise x balance held during the rise:
\* a deposit earns nothing for an earlier rise, a withdraw forfeits nothing.
C27_AccrualFollowsBalance ==
    /\ TicketSettled => ticket.unclaimed_mine = owed.ticket
    /\ MiningSettled => mining.unclaimed_mine = owed.mining

\* ------------------------------------------------------------------------
\* Properties of deposits and redemptions alone (SpecDepositRedeem)
\* ------------------------------------------------------------------------
\* C28: in a pool with no borrows and no owner fees that successful
\* deposit_liquidity and redeem_collateral calls alone have brought from
\* initialization to its state, redeem_collateral(mint_total_supply) succeeds
\* and returns at most available_amount.
C28_WholeSupplyRedeemable ==
    /\ LET out == redeem_collateral(After, After.collateral.mint_total_supply)
       IN /\ out.res.ok
          /\ out.res.v <= After.liquidity.available_amount
    /\ (hist.op = "redeem_collateral" /\ hist.a = Before.collateral.mint_total_supply)
           => (hist.res.ok /\ hist.res.v <= Before.liquidity.available_amount)

\* The whole supply is redeemed after a deposit and a partial redemption
C28_SupplyRedeemedAfterPartial ==
    /\ hist.op = "redeem_collateral"
    /\ hist.res.ok
    /\ hist.a = Before.collateral.mint_total_supply
    /\ hist.a > 0
    /\ Before.collateral.mint_total_supply \notin LiquidityAmounts
    /\ After.collateral.mint_total_supply = 0

\* ------------------------------------------------------------------------
\* Properties of the stale flag over sequences of instructions (Spec)
\* ------------------------------------------------------------------------
DepositOrRedeem(h) == h.op \in {"DepositPoolLiquidity", "RedeemPoolCollateral"}

\* C29: a successful DepositPoolLiquidity or RedeemPoolCollateral leaves the
\* pool marked stale; a successful one starts from a pool that is not stale and
\* was refreshed in its slot, and only a successful RefreshPool clears the
\* flag, so a successful RefreshPool lies between every two successful
\* deposit/redeem operations, also within one slot; and a deposit or redeem
\* that directly follows a successful RefreshPool of the same slot is not
\* rejected with ReserveStale.
C29_RefreshBetweenOperations ==
    /\ []((DepositOrRedeem(hist) /\ hist.res.ok)
             => /\ After.last_update.stale
                /\ ~Before.last_update.stale
                /\ Before.last_update.slot = hist.slot)
    /\ [][(pools["p1"].last_update.stale /\ ~pools'["p1"].last_update.stale)
             => (hist'.op = "RefreshPool" /\ hist'.res.ok)]_vars
    /\ [][(hist.op = "RefreshPool" /\ hist.res.ok /\ DepositOrRedeem(hist'))
             => (hist'.slot = hist.slot /\ hist'.res.err # "ReserveStale")]_vars

\* A second operation succeeds in the slot of the first, after a refresh
C29_SecondOperationInSlot ==
    /\ DepositOrRedeem(hist)
    /\ hist.res.ok
    /\ clock = 0
    /\ Before.collateral.mint_total_supply > 0
    /\ After.last_update.stale

\* ------------------------------------------------------------------------
\* Properties of the amounts of a deposit and a redemption (SpecPoolValues)
\* ------------------------------------------------------------------------
\* available_amount + borrowed_amount_wads - owner_unclaimed, never negative
TotalLiquidity(p) ==
    LET all == p.liquidity.available_amount * WAD + p.liquidity.borrowed_amount_wads
    IN IF all < p.liquidity.owner_unclaimed THEN 0 ELSE all - p.liquidity.owner_unclaimed

\* The exchange rate of pool p: claim-token supply over total liquidity, the
\* initial rate when either is zero
RateOf(p) ==
    IF p.collateral.mint_total_supply = 0 \/ TotalLiquidity(p) = 0
    THEN INITIAL_COLLATERAL_RATE
    ELSE (p.collateral.mint_total_supply * WAD * WAD) \div TotalLiquidity(p)

\* C30: a successful deposit_liquidity(amount) returns amount x rate rounded
\* half-up, the rate being that of the pool before the deposit, adds amount to
\* available_amount and the minted amount to mint_total_supply and changes no
\* other field; a successful redeem_collateral(c) returns c / rate rounded
\* down, takes c from mint_total_supply and the returned liquidity from
\* available_amount and changes no other field.
C30_DepositAndRedeemAmounts ==
    /\ (hist.op = "deposit_liquidity" /\ hist.res.ok)
          => /\ hist.res.v = (RateOf(Before) * hist.a + HALF_WAD) \div WAD
             /\ After = [Before EXCEPT
                            !.liquidity.available_amount = @ + hist.a,
                            !.collateral.mint_total_supply = @ + hist.res.v]
    /\ (hist.op = "redeem_collateral" /\ hist.res.ok)
          => /\ hist.res.v = (hist.a * WAD) \div RateOf(Before)
             /\ After = [Before EXCEPT
                            !.liquidity.available_amount = @ - hist.res.v,
                            !.collateral.mint_total_supply = @ - hist.a]

\* A deposit whose amount x rate lies halfway between two integers
C30_HalfwayDepositMinted ==
    /\ hist.op = "deposit_liquidity"
    /\ hist.res.ok
    /\ (RateOf(Before) * hist.a) % WAD = HALF_WAD
    /\ After.collateral.mint_total_supply > Before.collateral.mint_total_supply

\* ------------------------------------------------------------------------
\* Properties of RefreshPool (Spec)
\* ------------------------------------------------------------------------
\* C31: after a successful RefreshPool at slot s the pool has last_update.slot
\* = s and is not stale, its market_price is the oracle's price and its indexes
\* are those refresh_index gives for the slots elapsed since the previous
\* last_update.slot; the price is read first, so a refused price is the error
\* of the instruction, and a RefreshPool that fails leaves the record as it
\* was, not marked refreshed.
C31_RefreshPoolOutcome ==
    /\ (hist.op = "RefreshPool" /\ hist.res.ok)
          => /\ After.last_update = [slot |-> hist.slot, stale |-> FALSE]
             /\ After.liquidity.market_price = get_pyth_price(hist.a, hist.b).v
             /\ After.lottery = refresh_index(Before, hist.slot).self.lottery
             /\ After = [Before EXCEPT !.last_update = After.last_update,
                                       !.liquidity.market_price = After.liquidity.market_price,
                                       !.lottery = After.lottery]
    /\ (hist.op = "RefreshPool" /\ ~hist.res.ok)
          => /\ After = Before
             /\ (unpack(Before).ok /\ ~get_pyth_price(hist.a, hist.b).ok)
                   => hist.res = get_pyth_price(hist.a, hist.b)

\* A pool with claim tokens is refreshed in a later slot and its index rises
C31_RefreshedInLaterSlot ==
    /\ hist.op = "RefreshPool"
    /\ hist.res.ok
    /\ hist.slot > Before.last_update.slot
    /\ Before.collateral.mint_total_supply > 0
    /\ After.lottery.l_token_mining_index > Before.lottery.l_token_mining_index
    /\ After.liquidity.market_price # Before.liquidity.market_price

\* ------------------------------------------------------------------------
\* Properties of refresh_index on any pool value, continued (SpecIndexValues)
\* ------------------------------------------------------------------------
\* The share has a value: the division of refresh_index succeeds
ShareDefined(p) == Decimal_try_div(p.liquidity.borrowed_amount_wads, p.liquidity.cumulative_borrow_rate_wads).ok

\* borrowed_amount_wads / cumulative_borrow_rate_wads
BorrowedShare(p) == (p.liquidity.borrowed_amount_wads * WAD) \div p.liquidity.cumulative_borrow_rate_wads

\* l_token_mining_index after the usual advance over the slots up to slot:
\* unchanged without claim tokens, else raised by speed x elapsed x ratio / supply
LendIndexAdvanced(p, slot) ==
    IF p.collateral.mint_total_supply = 0 THEN Ok(p.lottery.l_token_mining_index)
    ELSE AndThen(mining_amount(p, slot, get_mine_ratio(p).v[1]), LAMBDA m:
           Decimal_try_add(p.lottery.l_token_mining_index, m \div p.collateral.mint_total_supply))

\* borrow_mining_index changes only in a call made with a share of at least 1
BorrowIndexNeedsShare ==
    (hist.op = "refresh_index" /\ hist.b.lottery.borrow_mining_index # Before.lottery.borrow_mining_index)
       => (ShareDefined(Before) /\ BorrowedShare(Before) >= Decimal_one)

\* C32 as stated: refresh_index advances borrow_mining_index only when the
\* share is at least 1; with a share below 1 the call succeeds, leaves
\* borrow_mining_index and advances l_token_mining_index as usual.
C32_ShareBelowOneSucceeds ==
    /\ BorrowIndexNeedsShare
    /\ (hist.op = "refresh_index" /\ ShareDefined(Before) /\ BorrowedShare(Before) < Decimal_one)
          => /\ hist.res.ok
             /\ hist.b.lottery.borrow_mining_index = Before.lottery.borrow_mining_index
             /\ hist.b.lottery.l_token_mining_index = LendIndexAdvanced(Before, hist.a).v

\* C32 (amended): refresh_index advances borrow_mining_index only when the
\* share is at least 1; with a share below 1 the call leaves
\* borrow_mining_index, and succeeds with l_token_mining_index advanced as
\* usual whenever that advance succeeds (the slot is not before
\* last_update.slot and the index does not overflow), failing otherwise with
\* the error of the advance and l_token_mining_index unchanged.
C32_ShareBelowOneSkipsBorrowSide ==
    /\ BorrowIndexNeedsShare
    /\ (hist.op = "refresh_index" /\ ShareDefined(Before) /\ BorrowedShare(Before) < Decimal_one)
          => /\ hist.b.lottery.borrow_mining_index = Before.lottery.borrow_mining_index
             /\ hist.res.ok = LendIndexAdvanced(Before, hist.a).ok
             /\ hist.res.ok => hist.b.lottery.l_token_mining_index = LendIndexAdvanced(Before, hist.a).v
             /\ ~hist.res.ok => /\ hist.res.err = LendIndexAdvanced(Before, hist.a).err
                                /\ hist.b.lottery.l_token_mining_index = Before.lottery.l_token_mining_index

\* A share between 0 and 1: the lend side advances, the borrow side is skipped
C32_SmallShareSkipped ==
    /\ hist.op = "refresh_index"
    /\ hist.res.ok
    /\ ShareDefined(Before)
    /\ BorrowedShare(Before) > 0
    /\ BorrowedShare(Before) < Decimal_one
    /\ hist.b.lottery.l_token_mining_index > Before.lottery.l_token_mining_index
    /\ hist.b.lottery.borrow_mining_index = Before.lottery.borrow_mining_index

\* C33: refresh_index changes no field of the pool but
\* lottery.l_token_mining_index and lottery.borrow_mining_index, whatever it
\* returns: last_update, liquidity, collateral, config, reentry_lock,
\* total_mining_speed and kink_util_rate are as before the call.
C33_RefreshIndexFrame ==
    hist.op = "refresh_index"
       => hist.b = [Before EXCEPT
                       !.lottery.l_token_mining_index = hist.b.lottery.l_token_mining_index,
                       !.lottery.borrow_mining_index = hist.b.lottery.borrow_mining_index]

\* Both indexes advanced in a slot after last_update.slot, which stays
C33_AdvancedInLaterSlot ==
    /\ hist.op = "refresh_index"
    /\ hist.res.ok
    /\ hist.a > Before.last_update.slot
    /\ hist.b.lottery.l_token_mining_index > Before.lottery.l_token_mining_index
    /\ hist.b.lottery.borrow_mining_index > Before.lottery.borrow_mining_index
    /\ hist.b.last_update = Before.last_update

\* C34: refresh_index on a pool with mint_total_supply = 0 succeeds for every
\* slot, a slot before last_update.slot included, and leaves both indexes.
C34_NoSupplyIsNoOp ==
    (hist.op = "refresh_index" /\ Before.collateral.mint_total_supply = 0)
       => /\ hist.res.ok
          /\ hist.b.lottery.l_token_mining_index = Before.lottery.l_token_mining_index
          /\ hist.b.lottery.borrow_mining_index = Before.lottery.borrow_mining_index

\* Without claim tokens, a slot before last_update.slot is accepted
C34_EarlierSlotAccepted ==
    /\ hist.op = "refresh_index"
    /\ Before.collateral.mint_total_supply = 0
    /\ hist.a < Before.last_update.slot
    /\ hist.res.ok
    /\ hist.b = Before

\* C35: refresh_index(slot) on a pool with mint_total_supply > 0 and slot
\* before last_update.slot fails with MathOverflow and changes neither index.
C35_EarlierSlotFails ==
    (/\ hist.op = "refresh_index"
     /\ Before.collateral.mint_total_supply > 0
     /\ hist.a < Before.last_update.slot)
       => /\ hist.res = MathOverflow
          /\ hist.b.lottery.l_token_mining_index = Before.lottery.l_token_mining_index
          /\ hist.b.lottery.borrow_mining_index = Before.lottery.borrow_mining_index

\* With claim tokens and a share of at least 1, an earlier slot is refused
C35_EarlierSlotRefused ==
    /\ hist.op = "refresh_index"
    /\ Before.collateral.mint_total_supply > 0
    /\ hist.a < Before.last_update.slot
    /\ ShareDefined(Before)
    /\ BorrowedShare(Before) >= Decimal_one
    /\ ~hist.res.ok
    /\ hist.b = Before

\* ------------------------------------------------------------------------
\* Properties of a refreshed ticket (SpecTicketValues)
\* ------------------------------------------------------------------------
\* deposited_amount claim tokens of the pool converted to liquidity at the
\* pool's exchange rate, times market_price, over 10^mint_decimals
MarketValueOf(pool, amount) ==
    (((((amount * WAD) * WAD) \div RateOf(pool)) * pool.liquidity.market_price) \div WAD)
        \div (10 ^ pool.liquidity.mint_decimals)

RECURSIVE SumOfMarketValues(_)
SumOfMarketValues(deposits) ==
    IF deposits = <<>> THEN 0
    ELSE Head(deposits).market_value + SumOfMarketValues(Tail(deposits))

\* C36: after a successful RefreshTicket at slot s, deposited_value is the sum
\* of the entries' market_value, each market_value is the entry's
\* deposited_amount converted to liquidity at its pool's exchange rate times
\* the pool's market_price over 10^mint_decimals, each entry's index is its
\* pool's l_token_mining_index, and the ticket is not stale with
\* last_update.slot = s.
C36_RefreshedTicketValues ==
    (hist.op = "RefreshTicket" /\ hist.res.ok)
       => /\ ticket.deposited_value = SumOfMarketValues(ticket.deposits)
          /\ \A i \in 1..Len(ticket.deposits) :
                LET d == ticket.deposits[i]
                    pool == pools[d.deposit_reserve]
                IN /\ d.market_value = MarketValueOf(pool, d.deposited_amount)
                   /\ d.index = pool.lottery.l_token_mining_index
          /\ ticket.last_update = [slot |-> hist.slot, stale |-> FALSE]

\* A ticket of two pools is refreshed in a later slot: the entries are valued
\* at a rate other than 1 and brought to their pools' indexes
C36_TwoEntriesValued ==
    /\ hist.op = "RefreshTicket"
    /\ hist.res.ok
    /\ hist.slot > 0
    /\ Len(ticket.deposits) = 2
    /\ \A i \in 1..2 :
          /\ ticket.deposits[i].market_value > 0
          /\ ticket.deposits[i].index > hist.ticket.deposits[i].index
          /\ RateOf(pools[ticket.deposits[i].deposit_reserve]) # INITIAL_COLLATERAL_RATE
    /\ ticket.unclaimed_mine > hist.ticket.unclaimed_mine

\* ------------------------------------------------------------------------
\* Properties of repeated refreshes (SpecRepeat)
\* ------------------------------------------------------------------------
\* C37: a second successful RefreshPool in the slot of the first leaves
\* l_token_mining_index and borrow_mining_index as the first left them, and a
\* second refresh_deposit_unclaimed or refresh_unclaimed of an entry that is at
\* the pool's index adds 0 to unclaimed_mine.
C37_RepeatedRefreshAddsNothing ==
    /\ (/\ hist.op = "RefreshPool"
        /\ hist.res.ok
        /\ Before.last_update.slot = hist.slot)
          => /\ After.lottery.l_token_mining_index = Before.lottery.l_token_mining_index
             /\ After.lottery.borrow_mining_index = Before.lottery.borrow_mining_index
    /\ (/\ hist.op = "refresh_deposit_unclaimed"
        /\ hist.ticket.deposits[hist.a].index = hist.b)
          => /\ hist.res.ok
             /\ ticket.unclaimed_mine = hist.ticket.unclaimed_mine
    /\ (/\ hist.op = "refresh_unclaimed"
        /\ hist.mining.mining_indices[hist.a].index = hist.b)
          => /\ hist.res.ok
             /\ mining.unclaimed_mine = hist.mining.unclaimed_mine

\* The pool, with both indexes advanced by a refresh of this slot, is
\* refreshed again at another price, after the ticket's entry has accrued
C37_RefreshedAgainInSlot ==
    /\ hist.op = "RefreshPool"
    /\ hist.res.ok
    /\ hist.slot > 0
    /\ Before.last_update = [slot |-> hist.slot, stale |-> FALSE]
    /\ Before.lottery.l_token_mining_index > 0
    /\ Before.lottery.borrow_mining_index > 0
    /\ After.liquidity.market_price # Before.liquidity.market_price
    /\ ticket.unclaimed_mine > 0
    /\ ticket.deposits[1].index = Before.lottery.l_token_mining_index
====
